---- MODULE Spec2Model ----
(***************************************************************************)
(* A model of pyapi (dealfonso/pyapi): the leveled logger of               *)
(* pyapi/debug.py, the configuration loader of pyapi/config.py, the auth   *)
(* dependencies of pyapi/dependencies.py, the FastAPIX class of            *)
(* pyapi/fastapi.py with its routes and lifespan, the JSON store of        *)
(* pyapi/jsondb.py, remove_nones of pyapi/utils.py, p_log called by        *)
(* several threads, and the front ends example.py and pyapi/__main__.py.   *)
(*                                                                         *)
(* Python strings that the code converts (str.upper, str.lower) or sorts   *)
(* (dir) are modelled as sequences of one-character strings, so that the   *)
(* conversions are computed and not assumed.                               *)
(***************************************************************************)
EXTENDS Integers, Sequences, FiniteSets, TLC

(***************************************************************************)
(* Python strings                                                          *)
(***************************************************************************)

\* The characters the model uses, in code point order (upper case letters,
\* then the underscore, then lower case letters).
AsciiOrder ==
    << "A", "B", "C", "D", "E", "F", "G", "H", "I", "J", "K", "L", "M",
       "N", "O", "P", "Q", "R", "S", "T", "U", "V", "W", "X", "Y", "Z",
       "_",
       "a", "b", "c", "d", "e", "f", "g", "h", "i", "j", "k", "l", "m",
       "n", "o", "p", "q", "r", "s", "t", "u", "v", "w", "x", "y", "z" >>

\* Position of a character in code point order.
Ord(c) == CHOOSE i \in 1..Len(AsciiOrder) : AsciiOrder[i] = c

\* str.upper() on one character
UpperChar(c) == IF Ord(c) >= 28 THEN AsciiOrder[Ord(c) - 27] ELSE c

\* str.lower() on one character
LowerChar(c) == IF Ord(c) <= 26 THEN AsciiOrder[Ord(c) + 27] ELSE c

\* str.upper()
Upper(s) == [i \in 1..Len(s) |-> UpperChar(s[i])]

\* str.lower()
Lower(s) == [i \in 1..Len(s) |-> LowerChar(s[i])]

\* Python's  a < b  on strings (code point, lexicographic)
RECURSIVE StrLess(_, _)
StrLess(a, b) ==
    IF b = <<>> THEN FALSE
    ELSE IF a = <<>> THEN TRUE
    ELSE IF Ord(Head(a)) # Ord(Head(b)) THEN Ord(Head(a)) < Ord(Head(b))
    ELSE StrLess(Tail(a), Tail(b))

\* sorted(S): dir() returns the names of an object in this order
RECURSIVE Sorted(_)
Sorted(S) ==
    IF S = {} THEN <<>>
    ELSE LET m == CHOOSE x \in S : \A y \in S \ {x} : StrLess(x, y)
         IN  <<m>> \o Sorted(S \ {m})

Range(s) == {s[i] : i \in DOMAIN s}

\* Python's None, where a variable holds either None or a file name
None == "None"

(***************************************************************************)
(* pyapi/debug.py: the logger                                              *)
(***************************************************************************)

S_OUTPUT == <<"O", "U", "T", "P", "U", "T">>
S_FATAL == <<"F", "A", "T", "A", "L">>
S_ERROR == <<"E", "R", "R", "O", "R">>
S_WARN == <<"W", "A", "R", "N">>
S_INFO == <<"I", "N", "F", "O">>
S_DEBUG == <<"D", "E", "B", "U", "G">>
S_TRACE == <<"T", "R", "A", "C", "E">>

\* The list of level names of _n_debug_val
LevelList == <<S_OUTPUT, S_FATAL, S_ERROR, S_WARN, S_INFO, S_DEBUG, S_TRACE>>

\* list.index(x): the 0-based position of x; defined when x is in the list
ListIndex(l, x) == (CHOOSE i \in 1..Len(l) : l[i] = x) - 1

\* Level names that callers pass: the seven levels, some of them in other
\* cases, and two names of Python's logging module that are not levels here
\* (uvicorn's records carry them).
S_info == <<"i", "n", "f", "o">>
S_Warn == <<"W", "a", "r", "n">>
S_debug == <<"d", "e", "b", "u", "g">>
S_WARNING == <<"W", "A", "R", "N", "I", "N", "G">>
S_CRITICAL == <<"C", "R", "I", "T", "I", "C", "A", "L">>

LevelNames ==
    Range(LevelList) \cup {S_info, S_Warn, S_debug, S_WARNING, S_CRITICAL}

\* The paths a log file is configured with
LogFiles == {"app.log", "var/app.log"}

\* The depth of the Python call stack at which a call raises RecursionError
\* (sys.getrecursionlimit() is 1000 in CPython; the model needs only a depth
\* that the calls of a terminating p_log never reach).
RecursionLimit == 6


VARIABLES
    LOG_LEVEL,      \* debug.LOG_LEVEL: the configured level name
    LOG_FILE,       \* debug.LOG_FILE: None or the path of the log file
    QUIET,          \* debug.QUIET
    writable,       \* environment: the log files that can be opened and written
    proc,           \* "running", or "exited" once sys.exit was called
    exit_status,    \* the argument of sys.exit, -1 while running
    file_failed,    \* history: a log file write failed and set_log_file was
                    \* not called since
    lres,           \* the last logger call and what it did
    heap,           \* the attributes of the target object and of the Config
                    \* object it holds
    fs,             \* environment: the candidate files and their contents
    nloads,         \* the number of load calls made
    cres,           \* the last load call and what it did
    API_KEYS,       \* dependencies.API_KEYS
    AUTHORIZED_USERS,       \* dependencies.AUTHORIZED_USERS
    ALLOW_ANONYMOUS_USER,   \* dependencies.ALLOW_ANONYMOUS_USER
    app,            \* the FastAPIX instance: the attributes __init__ sets
    ares,           \* the last call of an auth dependency and its outcome
    routes,         \* the routes registered on the FastAPIX instance
    lifespan,       \* the position of the lifespan context manager
    hooks,          \* history: the hooks that ran, in order
    rres,           \* the last request and the response to it
    db,             \* the JsonDB instance: class, autosave, _filename, tree
    disk,           \* environment: the files of the store and their text
    dres,           \* the last call on the store and its outcome
    obj,            \* the object handed to remove_nones, as the call leaves it
    ures,           \* the last call of remove_nones and what it returned
    pc,             \* the position of each thread in its call of p_log
    frame,          \* the locals of each thread's call of p_log and its outcome
    logfiles,       \* environment: the content of the log files
    front,          \* the front end that runs: "example" or "pyapi"
    args,           \* the arguments of the command line, parsed
    mpc,            \* the position of main
    server,         \* the call of uvicorn.run, once it is made
    merr            \* the exception that ended main, "" when there is none

\* A line of standard output, or of the log file.  "log" is the line
\* "[LEVEL] timestamp message" (the level as the caller wrote it); "err" and
\* "off" are the two lines printed when the log file cannot be written.
\* arg is the level name quoted by the message "Invalid log level: ...".
Line(kind, level, msg, arg) ==
    [kind |-> kind, level |-> level, msg |-> msg, arg |-> arg]

LogString(level, msg, arg) == Line("log", level, msg, arg)

\* What a call has done so far: the value of LOG_FILE, the lines printed, the
\* lines appended to the log file, the number of times the log file was
\* opened, and whether a write failed.
Effects(logfile) ==
    [LOG_FILE |-> logfile, out |-> <<>>, written |-> <<>>, attempts |-> 0,
     failed |-> FALSE]

\* debug.py:54-57, the try block: open the file for append, write, flush
WriteLogFile(st, line) ==
    [st EXCEPT !.written = Append(@, [file |-> st.LOG_FILE, line |-> line]),
               !.attempts = @ + 1]

\* OnWriteError without line 61: LOG_FILE keeps its value after the failure
OnWriteError_keeps_file(st) ==
    [st EXCEPT !.out = @ \o << Line("err", <<>>, "Error writting to log file", <<>>),
                               Line("off", <<>>, "Deactivating writting to log file", <<>>) >>,
               !.attempts = @ + 1,
               !.failed = TRUE]

\* debug.py:58-61, the except block (it prints whatever QUIET is)
OnWriteError(st) ==
    [st EXCEPT !.out = @ \o << Line("err", <<>>, "Error writting to log file", <<>>),
                               Line("off", <<>>, "Deactivating writting to log file", <<>>) >>,
               !.attempts = @ + 1,
               !.failed = TRUE,
               !.LOG_FILE = None]

\* debug.py:53-61
FileStep(st, line, canWrite) ==
    IF st.LOG_FILE # None
    THEN IF st.LOG_FILE \in canWrite THEN WriteLogFile(st, line) ELSE OnWriteError(st)
    ELSE st

\* debug.py:63-64
PrintStep(st, line, quiet) ==
    IF ~quiet THEN [st EXCEPT !.out = Append(@, line)] ELSE st

\* LevelPasses with < for <=: a message of the configured level is dropped
LevelPasses_strict(levelRank, configuredRank) == levelRank < configuredRank

\* debug.py:51, the comparison of the two ranks
LevelPasses(levelRank, configuredRank) == levelRank <= configuredRank

\* The result of a call: the effects, whether it raised RecursionError, the
\* rank (of _n_debug_val) and whether the message passed the level filter.
Result(st, raised, val, emitted) ==
    [st |-> st, raised |-> raised, val |-> val, emitted |-> emitted]

\* cfg is the logger configuration read by p_log: [level, quiet, canWrite]
RECURSIVE n_debug_val(_, _, _, _)
RECURSIVE p_log(_, _, _, _, _, _)

\* debug.py:40-45.  depth is the number of frames on the call stack.
n_debug_val(st, cfg, name, depth) ==
    IF depth > RecursionLimit THEN Result(st, TRUE, 0, FALSE)
    ELSE IF Upper(name) \in Range(LevelList)
    THEN Result(st, FALSE, ListIndex(LevelList, Upper(name)), FALSE)
    ELSE LET r == p_log(st, cfg, S_ERROR, "Invalid log level", name, depth + 1)
         IN  IF r.raised THEN Result(r.st, TRUE, 0, FALSE)
             ELSE n_debug_val(r.st, cfg, S_INFO, depth + 1)

\* debug.py:47-64
p_log(st, cfg, level, msg, arg, depth) ==
    IF depth > RecursionLimit THEN Result(st, TRUE, 0, FALSE)
    ELSE LET a == n_debug_val(st, cfg, level, depth + 1)
         IN  IF a.raised THEN Result(a.st, TRUE, 0, FALSE)
             ELSE LET b == n_debug_val(a.st, cfg, cfg.level, depth + 1)
                  IN  IF b.raised THEN Result(b.st, TRUE, 0, FALSE)
                      ELSE IF LevelPasses(a.val, b.val)
                      THEN LET line == LogString(level, msg, arg)
                           IN  Result(PrintStep(FileStep(b.st, line, cfg.canWrite),
                                                line, cfg.quiet),
                                      FALSE, 0, TRUE)
                      ELSE Result(b.st, FALSE, 0, FALSE)

\* The configuration p_log reads from the module's globals and the environment
LoggerCfg == [level |-> LOG_LEVEL, quiet |-> QUIET, canWrite |-> writable]

logger_vars ==
    <<LOG_LEVEL, LOG_FILE, QUIET, writable, proc, exit_status, file_failed, lres>>

config_vars == <<heap, fs, nloads, cres>>

auth_vars == <<API_KEYS, AUTHORIZED_USERS, ALLOW_ANONYMOUS_USER, app, ares>>

app_vars == <<routes, lifespan, hooks, rres>>

db_vars == <<db, disk, dres>>

web_vars == <<auth_vars, app_vars, db_vars>>

utils_vars == <<obj, ures>>

race_vars == <<pc, frame, logfiles>>

main_vars == <<front, args, mpc, server, merr>>

tool_vars == <<utils_vars, race_vars, main_vars>>

vars == <<logger_vars, config_vars, web_vars, tool_vars>>

\* The record of a logger call: the function called, the level and the state
\* it was called in, and what it did.
CallRecord(op, level, before, failed_before, r, exited) ==
    [op |-> op, level |-> level, logfile_before |-> before,
     failed_before |-> failed_before,
     emitted |-> r.emitted, raised |-> r.raised, out |-> r.st.out,
     written |-> r.st.written, attempts |-> r.st.attempts,
     failed |-> r.st.failed, exited |-> exited]

NoCall ==
    CallRecord("none", <<>>, None, FALSE, Result(Effects(None), FALSE, 0, FALSE), FALSE)

\* debug.py:19-26, the module's globals after import
LoggerDefaults ==
    /\ LOG_LEVEL = S_INFO
    /\ LOG_FILE = None
    /\ QUIET = FALSE
    /\ proc = "running"
    /\ exit_status = -1
    /\ file_failed = FALSE
    /\ lres = NoCall

\* debug.py:28-30
set_log_level(level) ==
    /\ proc = "running"
    /\ LOG_LEVEL' = level
    /\ lres' = NoCall
    /\ UNCHANGED <<LOG_FILE, QUIET, writable, proc, exit_status, file_failed>>
    /\ UNCHANGED config_vars
    /\ UNCHANGED <<web_vars, tool_vars>>

\* debug.py:32-34
set_log_file(filename) ==
    /\ proc = "running"
    /\ LOG_FILE' = filename
    /\ file_failed' = FALSE
    /\ lres' = NoCall
    /\ UNCHANGED <<LOG_LEVEL, QUIET, writable, proc, exit_status>>
    /\ UNCHANGED config_vars
    /\ UNCHANGED <<web_vars, tool_vars>>

\* debug.py:36-38
set_quiet(quiet) ==
    /\ proc = "running"
    /\ QUIET' = quiet
    /\ lres' = NoCall
    /\ UNCHANGED <<LOG_LEVEL, LOG_FILE, writable, proc, exit_status, file_failed>>
    /\ UNCHANGED config_vars
    /\ UNCHANGED <<web_vars, tool_vars>>

\* The environment: a log file becomes unwritable (its directory is removed,
\* the disk fills up, permissions change) or writable again.
EnvSetWritable(f) ==
    /\ proc = "running"
    /\ writable' = IF f \in writable THEN writable \ {f} ELSE writable \cup {f}
    /\ lres' = NoCall
    /\ UNCHANGED <<LOG_LEVEL, LOG_FILE, QUIET, proc, exit_status, file_failed>>
    /\ UNCHANGED config_vars
    /\ UNCHANGED <<web_vars, tool_vars>>

\* The globals after a call of p_log that returned r
AfterLog(r) ==
    /\ LOG_FILE' = r.st.LOG_FILE
    /\ file_failed' = (file_failed \/ r.st.failed)
    /\ UNCHANGED <<LOG_LEVEL, QUIET, writable>>

\* A caller calls p_log(level, "m")  (debug.py:47-64)
PLog(level) ==
    /\ proc = "running"
    /\ LET r == p_log(Effects(LOG_FILE), LoggerCfg, level, "m", <<>>, 1)
       IN  /\ AfterLog(r)
           /\ lres' = CallRecord("p_log", level, LOG_FILE, file_failed, r, FALSE)
    /\ UNCHANGED <<proc, exit_status>>
    /\ UNCHANGED config_vars
    /\ UNCHANGED <<web_vars, tool_vars>>

\* debug.py:85-89
POutput ==
    /\ proc = "running"
    /\ LET r == p_log(Effects(LOG_FILE), LoggerCfg, S_OUTPUT, "m", <<>>, 2)
       IN  /\ AfterLog(r)
           /\ lres' = CallRecord("p_output", S_OUTPUT, LOG_FILE, file_failed, r, FALSE)
    /\ UNCHANGED <<proc, exit_status>>
    /\ UNCHANGED config_vars
    /\ UNCHANGED <<web_vars, tool_vars>>

\* debug.py:82-83: sys.exit(1) is reached when p_log returns; an exception
\* of p_log propagates to the caller of p_fatal instead.
ExitAfter(r) == IF r.raised THEN <<"running", -1>> ELSE <<"exited", 1>>

\* debug.py:81-83
PFatal ==
    /\ proc = "running"
    /\ LET r == p_log(Effects(LOG_FILE), LoggerCfg, S_FATAL, "m", <<>>, 2)
       IN  /\ AfterLog(r)
           /\ proc' = ExitAfter(r)[1]
           /\ exit_status' = ExitAfter(r)[2]
           /\ lres' = CallRecord("p_fatal", S_FATAL, LOG_FILE, file_failed, r,
                                 ExitAfter(r)[1] = "exited")
    /\ UNCHANGED config_vars
    /\ UNCHANGED <<web_vars, tool_vars>>

NextLog ==
    \/ \E level \in LevelNames : set_log_level(level)
    \/ \E f \in LogFiles \cup {None} : set_log_file(f)
    \/ \E q \in BOOLEAN : set_quiet(q)
    \/ \E f \in LogFiles : EnvSetWritable(f)
    \/ \E level \in LevelNames : PLog(level)
    \/ POutput
    \/ PFatal

(***************************************************************************)
(* pyapi/config.py: the configuration loader                               *)
(***************************************************************************)

\* The number of load calls in a run
MaxLoads == 2

\* Python values: integers, dicts (functions from keys to values), references
\* to Config objects, callables (functions, methods) and modules.
PyInt(n) == [t |-> "int", v |-> n]
PyDict(f) == [t |-> "dict", v |-> f]
PyRef(id) == [t |-> "ref", v |-> id]
PyFn == [t |-> "fn", v |-> 0]
PyModule == [t |-> "mod", v |-> 0]

\* Attribute names of the target and of the nested Config object
N_PORT == <<"P", "O", "R", "T">>
N_Log == <<"L", "o", "g">>
N_mode == <<"m", "o", "d", "e">>
N_k == <<"_", "k">>
N_load == <<"l", "o", "a", "d">>
N_os == <<"o", "s">>
N_DB == <<"D", "B">>
N_HOST == <<"H", "O", "S", "T">>
N_NAME == <<"N", "A", "M", "E">>

\* Keys of the files
K_port == <<"p", "o", "r", "t">>
K_log == <<"l", "o", "g">>
K_MODE == <<"M", "O", "D", "E">>
K_db == <<"d", "b">>
K_host == <<"h", "o", "s", "t">>
K_name == <<"n", "a", "m", "e">>
K_extra == <<"e", "x", "t", "r", "a">>
K_zzz == <<"z", "z", "z">>
K_pyapi == <<"p", "y", "a", "p", "i">>

\* The target: an instance of a subclass of Config.  load stands for the
\* methods of the class (from_object, read_from_object, load, toPlainObject),
\* os for a module the target holds, _k for a private attribute.
InitialHeap ==
    ("target" :> ((N_PORT :> PyInt(0)) @@ (N_Log :> PyInt(0)) @@ (N_mode :> PyInt(0))
                @@ (N_k :> PyInt(0)) @@ (N_load :> PyFn) @@ (N_os :> PyModule)
                @@ (N_DB :> PyRef("nested"))))
    @@ ("nested" :> ((N_HOST :> PyInt(0)) @@ (N_NAME :> PyInt(0)) @@ (N_load :> PyFn)))

\* The contents of the candidate files, as yaml.safe_load returns them.
\* File A gives the values 1 and 3, file B the value 2.
ContentA1 ==
    PyDict((K_port :> PyInt(1)) @@ (K_extra :> PyInt(1)) @@ (N_load :> PyInt(1))
         @@ (N_k :> PyInt(1)) @@ (N_os :> PyInt(1)) @@ (K_MODE :> PyInt(1))
         @@ (K_db :> PyDict((K_host :> PyInt(1)) @@ (K_zzz :> PyInt(1)))))

ContentA2 ==
    PyDict((K_pyapi :> PyDict((N_PORT :> PyInt(1)) @@ (K_log :> PyInt(1))))
         @@ (K_port :> PyInt(3)) @@ (K_db :> PyInt(3)))

ContentB1 ==
    PyDict((K_pyapi :> PyDict((K_port :> PyInt(2)) @@ (N_mode :> PyInt(2))
                          @@ (K_db :> PyDict((K_name :> PyInt(2))))))
         @@ (K_log :> PyInt(2)))

ContentB2 ==
    PyDict((K_port :> PyInt(2)) @@ (K_log :> PyInt(2)) @@ (N_mode :> PyInt(2))
         @@ (K_db :> PyDict((K_host :> PyInt(2)) @@ (K_name :> PyInt(2)))))

\* The file names: A and B are candidates that may exist, C never exists
FileNames == {"A", "B", "C"}

\* The public attributes of an int that dir() lists (some of them)
IntDir == {<<"r", "e", "a", "l">>, <<"i", "m", "a", "g">>}

\* dir(obj) of an object of the heap (the names __xxx__ left out: they are
\* private and no file key or variable of the model matches them)
Dir(h, id) == DOMAIN h[id]

\* IsConfigurable without the test of the leading underscore
IsConfigurable_private_too(h, id, name) ==
    /\ h[id][name].t # "fn"
    /\ h[id][name].t # "mod"

\* not name.startswith("_") and not callable(value) and not a module
\* (config.py:59, 112, 131)
IsConfigurable(h, id, name) ==
    /\ name[1] # "_"
    /\ h[id][name].t # "fn"
    /\ h[id][name].t # "mod"

\* The list comprehension over dir(obj) of config.py:59, 112, 131
ConfigurableVariables(h, id) ==
    Sorted({name \in Dir(h, id) : IsConfigurable(h, id, name)})

\* config.py:133-137: object.keys() of a dict, dir(object) of anything else
ObjectAttributes(h, object) ==
    IF object.t = "dict" THEN DOMAIN object.v
    ELSE IF object.t = "ref" THEN Dir(h, object.v)
    ELSE IF object.t = "int" THEN IntDir
    ELSE {}

\* object[key]: defined for a dict; TypeError for a Config object or an int
Subscriptable(object) == object.t = "dict"

\* config.py:144-153: the key of the object that a variable reads, the
\* variable's name or else its lower-cased form; <<>> when there is none
KeyFor(variable_name, object_attributes) ==
    IF variable_name \in object_attributes THEN variable_name
    ELSE IF Lower(variable_name) \in object_attributes THEN Lower(variable_name)
    ELSE <<>>

RECURSIVE read_from_object(_, _, _)
RECURSIVE ReadVariables(_, _, _, _, _)

\* config.py:139-153, the loop from variable i on.  The result is the heap
\* and whether the loop raised (TypeError of object[...]).
ReadVariables(h, self, object, variables, i) ==
    IF i > Len(variables) THEN [heap |-> h, raised |-> FALSE]
    ELSE LET variable_name == variables[i]
             is_config == /\ variable_name \in Dir(h, self)
                          /\ h[self][variable_name].t = "ref"
             key == KeyFor(variable_name, ObjectAttributes(h, object))
         IN  IF key = <<>> THEN ReadVariables(h, self, object, variables, i + 1)
             ELSE IF ~Subscriptable(object) THEN [heap |-> h, raised |-> TRUE]
             ELSE IF is_config
             THEN LET r == read_from_object(h, h[self][variable_name].v, object.v[key])
                  IN  IF r.raised THEN r
                      ELSE ReadVariables(r.heap, self, object, variables, i + 1)
             ELSE ReadVariables([h EXCEPT ![self][variable_name] = object.v[key]],
                                self, object, variables, i + 1)

\* config.py:122-153, Config.read_from_object(self, object)
read_from_object(h, self, object) ==
    ReadVariables(h, self, object, ConfigurableVariables(h, self), 1)

\* Python's None, a list and a string as values of the variable filenames
PyNone == [t |-> "none", v |-> <<>>]
PyList(l) == [t |-> "list", v |-> l]
PyStr(x) == [t |-> "str", v |-> x]

\* subkey=None (no sub-key); the sub-keys of the model are not empty
NoSubkey == <<>>

Reversed(l) == [i \in 1..Len(l) |-> l[Len(l) + 1 - i]]

\* list.reverse(): reverses the list in place and returns None
list_reverse(l) == [list |-> Reversed(l), ret |-> PyNone]

\* debug.py:75-76
p_warning(st, cfg, msg, depth) == p_log(st, cfg, S_WARN, msg, <<>>, depth + 1)

\* The state of a Config.load call: the heap, whether it raised, the list
\* used_files, the files whose mapping was passed to read_from_object
\* (history), and the effects of its logger calls.
LoadState(h, raised, used_files, applied, st) ==
    [heap |-> h, raised |-> raised, used_files |-> used_files,
     applied |-> applied, st |-> st]

\* config.py:200-205: the mapping to read from a file's mapping; found is
\* false when the sub-key is not in it
Scope(configuration, subkey) ==
    IF subkey = NoSubkey THEN [found |-> TRUE, configuration |-> configuration]
    ELSE IF subkey \notin DOMAIN configuration.v
    THEN [found |-> FALSE, configuration |-> configuration]
    ELSE [found |-> TRUE, configuration |-> configuration.v[subkey]]

\* config.py:195, used_files.append(filename)
UsedFilesAppend(used_files, filename) == Append(used_files, filename)

\* config.py:209-210: the loop ends after a file was read, unless layered
BreakAfterRead(layered_configuration) == ~layered_configuration

RECURSIVE LoadLoop(_, _, _, _, _, _, _, _)

\* config.py:190-210, the loop from file i on
LoadLoop(s, self, filenames, i, layered_configuration, subkey, fsys, cfg) ==
    IF i > Len(filenames) THEN s
    ELSE LET filename == filenames[i]
         IN  IF ~fsys[filename].exists
             THEN LoadLoop(s, self, filenames, i + 1, layered_configuration, subkey, fsys, cfg)
             ELSE LET used == UsedFilesAppend(s.used_files, filename)
                      scope == Scope(fsys[filename].content, subkey)
                  IN  IF ~scope.found
                      THEN LET w == p_warning(s.st, cfg, "key not found", 2)
                           IN  IF w.raised
                               THEN LoadState(s.heap, TRUE, used, s.applied, w.st)
                               ELSE LoadLoop(LoadState(s.heap, FALSE, used, s.applied, w.st),
                                             self, filenames, i + 1,
                                             layered_configuration, subkey, fsys, cfg)
                      ELSE LET r == read_from_object(s.heap, self, scope.configuration)
                               s2 == LoadState(r.heap, r.raised, used,
                                               Append(s.applied, filename), s.st)
                           IN  IF r.raised \/ BreakAfterRead(layered_configuration)
                               THEN s2
                               ELSE LoadLoop(s2, self, filenames, i + 1,
                                             layered_configuration, subkey, fsys, cfg)

\* config.py:179-183 and 48-49: a single file name becomes a list of one
AsList(filenames) == IF filenames.t = "list" THEN filenames.v ELSE <<filenames.v>>

\* config.py:185-186: filenames = filenames.reverse()
OrderFiles(filenames, layered_configuration) ==
    IF layered_configuration THEN list_reverse(filenames).ret ELSE PyList(filenames)

\* config.py:155-212, Config.load(self, filenames, layered_configuration, subkey).
\* Iterating over a value that is not a list raises TypeError.
Config_load(h, self, filenames, layered_configuration, subkey, fsys, st, cfg) ==
    LET ordered == OrderFiles(AsList(filenames), layered_configuration)
    IN  IF ordered.t # "list" THEN LoadState(h, TRUE, <<>>, <<>>, st)
        ELSE LoadLoop(LoadState(h, FALSE, <<>>, <<>>, st), self, ordered.v, 1,
                      layered_configuration, subkey, fsys, cfg)

\* config.py:98-120, Config.from_object(object, variables_to_acquire): the
\* attributes of the new Config object
from_object(h, object, variables_to_acquire) ==
    LET acquired == {name \in Range(variables_to_acquire) :
                        name \in Dir(h, object) \/ Lower(name) \in Dir(h, object)}
    IN  [name \in acquired \cup {N_load} |->
            IF name \notin acquired THEN PyFn
            ELSE IF name \in Dir(h, object) THEN h[object][name]
            ELSE h[object][Lower(name)]]

RECURSIVE WriteBack(_, _, _, _)

\* config.py:72-80, the loop from variable i on
WriteBack(h, current_config, configurable_variables, i) ==
    IF i > Len(configurable_variables) THEN [heap |-> h, raised |-> FALSE]
    ELSE LET variable_name == configurable_variables[i]
             is_config == /\ variable_name \in Dir(h, current_config)
                          /\ h[current_config][variable_name].t = "ref"
         IN  IF is_config
             THEN LET r == read_from_object(h, h[current_config][variable_name].v,
                                            h["config"][variable_name])
                  IN  IF r.raised THEN r
                      ELSE WriteBack(r.heap, current_config, configurable_variables, i + 1)
             ELSE WriteBack([h EXCEPT ![current_config][variable_name] =
                                          h["config"][variable_name]],
                            current_config, configurable_variables, i + 1)

\* The heap without the local object config
Forget(h) == [id \in DOMAIN h \ {"config"} |-> h[id]]

\* config.py:22-82, load(filenames, layered_configuration,
\* current_config=current_config, subkey=subkey), configurable_variables None
load(h, filenames, layered_configuration, current_config, subkey, fsys, st, cfg) ==
    LET configurable_variables == ConfigurableVariables(h, current_config)
        config == from_object(h, current_config, configurable_variables)
        r == Config_load(("config" :> config) @@ h, "config",
                         PyList(AsList(filenames)),
                         layered_configuration, subkey, fsys, st, cfg)
    IN  IF r.raised THEN [r EXCEPT !.heap = Forget(r.heap)]
        ELSE LET w == WriteBack(r.heap, current_config, configurable_variables, 1)
             IN  [r EXCEPT !.heap = Forget(w.heap), !.raised = w.raised]

\* A file of the file system: absent, or a regular file with a YAML mapping
Absent == [exists |-> FALSE, content |-> PyNone]
File(content) == [exists |-> TRUE, content |-> content]

\* The record of a load call: the function called, its arguments, the heap
\* before it, and what it did.
LoadRecord(op, filenames, layered_configuration, subkey, pre, r) ==
    [op |-> op, filenames |-> filenames, layered |-> layered_configuration,
     subkey |-> subkey, pre |-> pre, raised |-> r.raised,
     used_files |-> r.used_files, applied |-> r.applied, out |-> r.st.out]

NoLoad ==
    LoadRecord("none", PyNone, FALSE, NoSubkey, InitialHeap,
               LoadState(InitialHeap, FALSE, <<>>, <<>>, Effects(None)))

\* The arguments of the load calls
FilenamesArgs ==
    {PyList(<<"A", "B">>), PyList(<<"B", "A">>), PyList(<<"C", "A">>), PyStr("A")}

Subkeys == {NoSubkey, K_pyapi}

\* The globals of the logger after the logger calls of a load
AfterLoad(r) ==
    /\ LOG_FILE' = r.st.LOG_FILE
    /\ file_failed' = (file_failed \/ r.st.failed)
    /\ UNCHANGED <<LOG_LEVEL, QUIET, writable, proc, exit_status, lres>>

\* A caller calls target.load(filenames, layered_configuration, subkey)
ConfigLoad(filenames, layered_configuration, subkey) ==
    /\ nloads < MaxLoads
    /\ LET r == Config_load(heap, "target", filenames, layered_configuration,
                            subkey, fs, Effects(LOG_FILE), LoggerCfg)
       IN  /\ heap' = r.heap
           /\ cres' = LoadRecord("Config.load", filenames, layered_configuration,
                                 subkey, heap, r)
           /\ AfterLoad(r)
    /\ nloads' = nloads + 1
    /\ UNCHANGED fs
    /\ UNCHANGED <<web_vars, tool_vars>>

\* A caller calls load(filenames, layered_configuration,
\* current_config=target, subkey=subkey)
ModuleLoad(filenames, layered_configuration, subkey) ==
    /\ nloads < MaxLoads
    /\ LET r == load(heap, filenames, layered_configuration, "target",
                     subkey, fs, Effects(LOG_FILE), LoggerCfg)
       IN  /\ heap' = r.heap
           /\ cres' = LoadRecord("load", filenames, layered_configuration,
                                 subkey, heap, r)
           /\ AfterLoad(r)
    /\ nloads' = nloads + 1
    /\ UNCHANGED fs
    /\ UNCHANGED <<web_vars, tool_vars>>

NextConfig ==
    \/ \E filenames \in FilenamesArgs, layered_configuration \in BOOLEAN,
          subkey \in Subkeys :
            ConfigLoad(filenames, layered_configuration, subkey)
    \/ \E filenames \in FilenamesArgs, layered_configuration \in BOOLEAN,
          subkey \in Subkeys :
            ModuleLoad(filenames, layered_configuration, subkey)

\* No load call was made
ConfigIdle ==
    /\ heap = InitialHeap
    /\ nloads = 0
    /\ cres = NoLoad

(***************************************************************************)
(* pyapi/dependencies.py and FastAPIX._get_api_key: the auth dependencies  *)
(***************************************************************************)

\* status.HTTP_401_UNAUTHORIZED
HTTP_401_UNAUTHORIZED == 401

\* The outcome of a call of a dependency: the value it returns, or the
\* HTTPException it raises
Return(v) == [raised |-> FALSE, value |-> v, status_code |-> 0]

HTTPException(status_code) ==
    [raised |-> TRUE, value |-> None, status_code |-> status_code]

\* x in l, for a Python list l
In(x, l) == \E i \in DOMAIN l : l[i] = x

PyBool(b) == [t |-> "bool", v |-> b]

\* callable(x)
Callable(x) == x.t = "fn"

\* dependencies.py:24-50
get_api_key_header_first(keys, api_key_query, api_key_header) ==
    IF keys.t = "none" THEN Return("default")
    ELSE IF Len(keys.v) = 0 THEN Return("default")
    ELSE IF In(api_key_header, keys.v) THEN Return(api_key_header)
    ELSE IF In(api_key_query, keys.v) THEN Return(api_key_query)
    ELSE HTTPException(HTTP_401_UNAUTHORIZED)

get_api_key(keys, api_key_query, api_key_header) ==
    IF keys.t = "none" THEN Return("default")
    ELSE IF Len(keys.v) = 0 THEN Return("default")
    ELSE IF In(api_key_query, keys.v) THEN Return(api_key_query)
    ELSE IF In(api_key_header, keys.v) THEN Return(api_key_header)
    ELSE HTTPException(HTTP_401_UNAUTHORIZED)

\* dependencies.py:53-85; credentials is the HTTPBasicCredentials of the
\* request, a username and a password
get_current_username_checks_password(credentials, users, allow_anonymous_user) ==
    IF users.t = "none" \/ Len(users.v) = 0
    THEN IF credentials.username = ""
         THEN IF allow_anonymous_user
              THEN Return("anonymous")
              ELSE HTTPException(HTTP_401_UNAUTHORIZED)
         ELSE Return(credentials.username)
    ELSE IF ~In(credentials.username, users.v) \/ credentials.password = ""
         THEN HTTPException(HTTP_401_UNAUTHORIZED)
         ELSE Return(credentials.username)

get_current_username(credentials, users, allow_anonymous_user) ==
    IF users.t = "none" \/ Len(users.v) = 0
    THEN IF credentials.username = ""
         THEN IF allow_anonymous_user
              THEN Return("anonymous")
              ELSE HTTPException(HTTP_401_UNAUTHORIZED)
         ELSE Return(credentials.username)
    ELSE IF ~In(credentials.username, users.v)
         THEN HTTPException(HTTP_401_UNAUTHORIZED)
         ELSE Return(credentials.username)

\* fastapi.py:19-43: the attributes FastAPIX.__init__ sets; raised when the
\* api_keys argument is neither None, a list nor a str
FastAPIX_init(on_start, on_stop, api_keys, auth_user, allow_anonymous_users) ==
    IF api_keys.t # "none" /\ api_keys.t # "list" /\ api_keys.t # "str"
    THEN [raised |-> TRUE, self |-> PyNone]
    ELSE [raised |-> FALSE,
          self |-> [_on_start |-> on_start,
                    _on_stop |-> on_stop,
                    _api_keys |-> IF api_keys.t = "str"
                                  THEN PyList(<<api_keys.v>>)
                                  ELSE api_keys,
                    _auth_user |-> auth_user,
                    _allow_anonymous_users |-> allow_anonymous_users]]

\* fastapi.py:265-294
_get_api_key(self, api_key_query, api_key_header) ==
    IF self._api_keys.t = "none" THEN Return("default")
    ELSE IF Len(self._api_keys.v) = 0 THEN Return("default")
    ELSE IF In(api_key_query, self._api_keys.v) THEN Return(api_key_query)
    ELSE IF In(api_key_header, self._api_keys.v) THEN Return(api_key_header)
    ELSE HTTPException(HTTP_401_UNAUTHORIZED)

\* The keys a request carries in the query string or in the header: None
\* when the parameter is absent (auto_error=False)
KeyValues == {None, "", "k1", "k2", "K1"}

\* The allow-lists of the configuration
KeyLists ==
    {PyNone, PyList(<<>>), PyList(<<"k1">>), PyList(<<"k1", "k2">>)}

\* The api_keys arguments of the constructor
ApiKeysArgs == KeyLists \cup {PyStr("k1"), PyInt(1)}

UserLists == {PyNone, PyList(<<>>), PyList(<<"alice", "bob">>)}

Usernames == {"", "alice", "eve"}

Passwords == {"", "secret"}

AuthCall(fn, a, b, out) == [fn |-> fn, a |-> a, b |-> b, out |-> out]

NoAuthCall == AuthCall("none", None, None, Return(None))

\* FastAPIX(): the instance of example.py:78
DefaultApp == FastAPIX_init(PyNone, PyNone, PyNone, PyNone, TRUE).self

\* The globals of dependencies.py and the instance before any request
AuthIdle ==
    /\ API_KEYS = PyNone
    /\ AUTHORIZED_USERS = PyNone
    /\ ALLOW_ANONYMOUS_USER = TRUE
    /\ app = DefaultApp
    /\ ares = NoAuthCall

\* A request reaches dependencies.get_api_key
GetApiKey(api_key_query, api_key_header) ==
    /\ ares' = AuthCall("get_api_key", api_key_query, api_key_header,
                        get_api_key(API_KEYS, api_key_query, api_key_header))
    /\ UNCHANGED <<API_KEYS, AUTHORIZED_USERS, ALLOW_ANONYMOUS_USER, app>>
    /\ UNCHANGED <<logger_vars, config_vars, app_vars, db_vars, tool_vars>>

\* A request reaches FastAPIX._get_api_key
AppGetApiKey(api_key_query, api_key_header) ==
    /\ ares' = AuthCall("_get_api_key", api_key_query, api_key_header,
                        _get_api_key(app, api_key_query, api_key_header))
    /\ UNCHANGED <<API_KEYS, AUTHORIZED_USERS, ALLOW_ANONYMOUS_USER, app>>
    /\ UNCHANGED <<logger_vars, config_vars, app_vars, db_vars, tool_vars>>

\* A request with basic-auth credentials reaches get_current_username
GetCurrentUsername(username, password) ==
    /\ ares' = AuthCall("get_current_username", username, password,
                        get_current_username(
                            [username |-> username, password |-> password],
                            AUTHORIZED_USERS, ALLOW_ANONYMOUS_USER))
    /\ UNCHANGED <<API_KEYS, AUTHORIZED_USERS, ALLOW_ANONYMOUS_USER, app>>
    /\ UNCHANGED <<logger_vars, config_vars, app_vars, db_vars, tool_vars>>

NextAuth ==
    \/ \E q \in KeyValues, h \in KeyValues : GetApiKey(q, h)
    \/ \E q \in KeyValues, h \in KeyValues : AppGetApiKey(q, h)
    \/ \E u \in Usernames, p \in Passwords : GetCurrentUsername(u, p)

(***************************************************************************)
(* pyapi/fastapi.py: FastAPIX, its routes and its lifespan; the app of     *)
(* pyapi/api.py                                                            *)
(***************************************************************************)

\* The routes one behaviour registers on the instance
MaxRoutes == 1

\* debug.py:72-73
p_info(st, cfg, msg, depth) == p_log(st, cfg, S_INFO, msg, <<>>, depth + 1)

\* The callables given to the constructor.  A hook returns or raises; an
\* auth_user callback is the caller's code: CheckPassword returns the
\* username for the password "secret" and False otherwise, so that it
\* returns a falsy "" for the empty username.
Hook == [t |-> "fn", v |-> 1]

RaisingHook == [t |-> "fn", v |-> 2]

CheckPassword == [t |-> "fn", v |-> 3]

HookRaises(f) == f = RaisingHook

\* self._auth_callback(credentials.username, credentials.password)
CallAuth(f, username, password) ==
    IF f = CheckPassword
    THEN IF password = "secret" THEN PyStr(username) ELSE PyBool(FALSE)
    ELSE PyNone

\* The truth value Python gives to x in "if x" and "not x"
Truthy(x) ==
    CASE x.t = "none" -> FALSE
      [] x.t = "bool" -> x.v
      [] x.t = "str" -> x.v # ""
      [] x.t = "int" -> x.v # 0
      [] OTHER -> TRUE

\* HTTPBasic(auto_error=False): None without an Authorization header
NoCredentials == [present |-> FALSE, username |-> "", password |-> ""]

HTTPBasicCredentials(username, password) ==
    [present |-> TRUE, username |-> username, password |-> password]

\* A dependency of a route: Security(self._get_api_key),
\* Security(get_api_key) or Security(APPAuth(...)) with the attributes of
\* the APPAuth instance
Security_get_api_key(call) ==
    [call |-> call, _require_auth |-> FALSE, _allow_anonymous |-> PyNone,
     _auth_callback |-> PyNone]

\* fastapi.py:117-121
APPAuth(require_auth, allow_anonymous, auth_callback) ==
    [call |-> "APPAuth", _require_auth |-> require_auth,
     _allow_anonymous |-> allow_anonymous, _auth_callback |-> auth_callback]

\* APPAuth_call without the call of the callback: any credentials authorize
APPAuth_call_any_credentials(self, credentials) ==
    LET authorized ==
            IF self._require_auth
            THEN IF ~credentials.present THEN self._allow_anonymous
                 ELSE PyBool(TRUE)
            ELSE PyBool(TRUE)
    IN  IF ~Truthy(authorized)
        THEN HTTPException(HTTP_401_UNAUTHORIZED)
        ELSE Return(None)

\* fastapi.py:123-138
APPAuth_call(self, credentials) ==
    LET called ==
            IF credentials.present
            THEN IF self._auth_callback.t # "none" /\ Callable(self._auth_callback)
                 THEN CallAuth(self._auth_callback, credentials.username,
                               credentials.password)
                 ELSE PyBool(FALSE)
            ELSE PyBool(FALSE)
        authorized ==
            IF self._require_auth
            THEN IF ~Truthy(called) THEN self._allow_anonymous ELSE called
            ELSE PyBool(TRUE)
    IN  IF ~Truthy(authorized)
        THEN HTTPException(HTTP_401_UNAUTHORIZED)
        ELSE Return(None)

\* _decorator_interceptor with the key check added whatever require_keys is
_decorator_interceptor_always_keys(self, require_keys, require_auth, allow_anonymous) ==
    <<Security_get_api_key("_get_api_key"),
      APPAuth(require_auth, allow_anonymous, self._auth_user)>>

\* fastapi.py:88-146: the dependencies added to the kwargs of the route
_decorator_interceptor(self, require_keys, require_auth, allow_anonymous) ==
    (IF require_keys THEN <<Security_get_api_key("_get_api_key")>> ELSE <<>>)
        \o <<APPAuth(require_auth, allow_anonymous, self._auth_user)>>

\* A route: the application it belongs to, the arguments it was registered
\* with and its dependencies
Route(on, require_keys, require_auth, allow_anonymous, dependencies) ==
    [app |-> on, require_keys |-> require_keys, require_auth |-> require_auth,
     allow_anonymous |-> allow_anonymous, dependencies |-> dependencies]

\* api.py:37-44: the route "/" of app, under the dependencies of app
ApiRoot ==
    Route("api.app", FALSE, FALSE, PyNone, <<Security_get_api_key("get_api_key")>>)

\* The framework calls one dependency of the route
CallDependency(dep, self, keys, query, header, credentials) ==
    CASE dep.call = "_get_api_key" -> _get_api_key(self, query, header)
      [] dep.call = "get_api_key" -> get_api_key(keys, query, header)
      [] dep.call = "APPAuth" -> APPAuth_call(dep, credentials)

\* The framework calls the dependencies in order, up to the first that
\* raises: the outcomes of the calls made
RECURSIVE SolveDependencies(_, _, _, _, _, _)
SolveDependencies(deps, self, keys, query, header, credentials) ==
    IF deps = <<>> THEN <<>>
    ELSE LET out == CallDependency(Head(deps), self, keys, query, header, credentials)
         IN  IF out.raised THEN <<out>>
             ELSE <<out>> \o SolveDependencies(Tail(deps), self, keys, query,
                                               header, credentials)

\* The response to a request: the status of the first HTTPException, or the
\* handler runs
Respond(route, self, keys, query, header, credentials) ==
    LET outcomes == SolveDependencies(route.dependencies, self, keys, query,
                                      header, credentials)
        rejected == outcomes # <<>> /\ outcomes[Len(outcomes)].raised
    IN  [served |-> TRUE, route |-> route, query |-> query, header |-> header,
         credentials |-> credentials, outcomes |-> outcomes,
         status_code |-> IF rejected THEN outcomes[Len(outcomes)].status_code
                         ELSE 200,
         handler_ran |-> ~rejected]

NoRequest ==
    [served |-> FALSE, route |-> ApiRoot, query |-> None, header |-> None,
     credentials |-> NoCredentials, outcomes |-> <<>>, status_code |-> 0,
     handler_ran |-> FALSE]

\* The outcome of one half of the lifespan: the logger effects, the hooks
\* called in order, and whether an exception left the context manager
Lifespan(st, called, raised) == [st |-> st, called |-> called, raised |-> raised]

\* One hook of the lifespan is called after the hooks of l
CallHook(l, name, raises) ==
    IF l.raised THEN l
    ELSE Lifespan(l.st, Append(l.called, name), raises)

\* The callback of the constructor is called when it is not None and callable
CallCallback(l, name, f) ==
    IF f.t # "none" /\ Callable(f) THEN CallHook(l, name, HookRaises(f)) ELSE l

LifespanInfo(l, cfg, msg) ==
    IF l.raised THEN l
    ELSE LET r == p_info(l.st, cfg, msg, 1)
         IN  Lifespan(r.st, l.called, r.raised)

\* lifespan_startup with the method called before the callback
lifespan_startup_method_first(self, st, cfg) ==
    LifespanInfo(
        CallCallback(
            CallHook(LifespanInfo(Lifespan(st, <<>>, FALSE), cfg, "initializing..."),
                     "on_start", FALSE),
            "_on_start", self._on_start),
        cfg, "ready...")

\* fastapi.py:47-57: the lifespan up to the yield
lifespan_startup(self, st, cfg) ==
    LifespanInfo(
        CallHook(
            CallCallback(LifespanInfo(Lifespan(st, <<>>, FALSE), cfg, "initializing..."),
                         "_on_start", self._on_start),
            "on_start", FALSE),
        cfg, "ready...")

\* fastapi.py:58-65: the lifespan after the yield
lifespan_shutdown(self, st, cfg) ==
    CallCallback(
        CallHook(LifespanInfo(Lifespan(st, <<>>, FALSE), cfg, "stopping dynports"),
                 "on_stop", FALSE),
        "_on_stop", self._on_stop)

\* The globals of the logger after the logger calls of the lifespan
AfterLifespan(l) ==
    /\ LOG_FILE' = l.st.LOG_FILE
    /\ file_failed' = (file_failed \/ l.st.failed)
    /\ UNCHANGED <<LOG_LEVEL, QUIET, writable, proc, exit_status, lres>>

\* The server starts: the framework enters the lifespan
Startup ==
    /\ lifespan = "created"
    /\ LET l == lifespan_startup(app, Effects(LOG_FILE), LoggerCfg)
       IN  /\ hooks' = hooks \o l.called
           /\ lifespan' = IF l.raised THEN "failed" ELSE "serving"
           /\ AfterLifespan(l)
    /\ UNCHANGED <<routes, rres>>
    /\ UNCHANGED <<config_vars, auth_vars, db_vars, tool_vars>>

\* The server stops: the framework leaves the lifespan
Shutdown ==
    /\ lifespan = "serving"
    /\ LET l == lifespan_shutdown(app, Effects(LOG_FILE), LoggerCfg)
       IN  /\ hooks' = hooks \o l.called
           /\ lifespan' = IF l.raised THEN "failed" ELSE "stopped"
           /\ AfterLifespan(l)
    /\ UNCHANGED <<routes, rres>>
    /\ UNCHANGED <<config_vars, auth_vars, db_vars, tool_vars>>

\* fastapi.py:162-163: the route a decorator adds, with the dependencies of
\* _decorator_interceptor in its kwargs
Registered(self, require_keys, require_auth, allow_anonymous) ==
    Route("FastAPIX", require_keys, require_auth, allow_anonymous,
          _decorator_interceptor(self, require_keys, require_auth, allow_anonymous))

\* fastapi.py:148-163
get(require_keys, require_auth, allow_anonymous) ==
    /\ Len(routes) < MaxRoutes
    /\ routes' = Append(routes, Registered(app, require_keys, require_auth,
                                           allow_anonymous))
    /\ UNCHANGED <<lifespan, hooks, rres>>
    /\ UNCHANGED <<logger_vars, config_vars, auth_vars, db_vars, tool_vars>>

\* fastapi.py:165-177
post(require_keys, require_auth, allow_anonymous) ==
    /\ Len(routes) < MaxRoutes
    /\ routes' = Append(routes, Registered(app, require_keys, require_auth,
                                           allow_anonymous))
    /\ UNCHANGED <<lifespan, hooks, rres>>
    /\ UNCHANGED <<logger_vars, config_vars, auth_vars, db_vars, tool_vars>>

\* fastapi.py:179-191
put(require_keys, require_auth, allow_anonymous) ==
    /\ Len(routes) < MaxRoutes
    /\ routes' = Append(routes, Registered(app, require_keys, require_auth,
                                           allow_anonymous))
    /\ UNCHANGED <<lifespan, hooks, rres>>
    /\ UNCHANGED <<logger_vars, config_vars, auth_vars, db_vars, tool_vars>>

\* fastapi.py:193-205
delete(require_keys, require_auth, allow_anonymous) ==
    /\ Len(routes) < MaxRoutes
    /\ routes' = Append(routes, Registered(app, require_keys, require_auth,
                                           allow_anonymous))
    /\ UNCHANGED <<lifespan, hooks, rres>>
    /\ UNCHANGED <<logger_vars, config_vars, auth_vars, db_vars, tool_vars>>

\* fastapi.py:207-219
options(require_keys, require_auth, allow_anonymous) ==
    /\ Len(routes) < MaxRoutes
    /\ routes' = Append(routes, Registered(app, require_keys, require_auth,
                                           allow_anonymous))
    /\ UNCHANGED <<lifespan, hooks, rres>>
    /\ UNCHANGED <<logger_vars, config_vars, auth_vars, db_vars, tool_vars>>

\* fastapi.py:221-233
head(require_keys, require_auth, allow_anonymous) ==
    /\ Len(routes) < MaxRoutes
    /\ routes' = Append(routes, Registered(app, require_keys, require_auth,
                                           allow_anonymous))
    /\ UNCHANGED <<lifespan, hooks, rres>>
    /\ UNCHANGED <<logger_vars, config_vars, auth_vars, db_vars, tool_vars>>

\* fastapi.py:235-247
patch(require_keys, require_auth, allow_anonymous) ==
    /\ Len(routes) < MaxRoutes
    /\ routes' = Append(routes, Registered(app, require_keys, require_auth,
                                           allow_anonymous))
    /\ UNCHANGED <<lifespan, hooks, rres>>
    /\ UNCHANGED <<logger_vars, config_vars, auth_vars, db_vars, tool_vars>>

\* fastapi.py:249-261
trace(require_keys, require_auth, allow_anonymous) ==
    /\ Len(routes) < MaxRoutes
    /\ routes' = Append(routes, Registered(app, require_keys, require_auth,
                                           allow_anonymous))
    /\ UNCHANGED <<lifespan, hooks, rres>>
    /\ UNCHANGED <<logger_vars, config_vars, auth_vars, db_vars, tool_vars>>

\* The instance serves a request on one of its routes
Request(i, query, header, credentials) ==
    /\ lifespan = "serving"
    /\ i \in DOMAIN routes
    /\ rres' = Respond(routes[i], app, API_KEYS, query, header, credentials)
    /\ UNCHANGED <<routes, lifespan, hooks>>
    /\ UNCHANGED <<logger_vars, config_vars, auth_vars, db_vars, tool_vars>>

\* The app of api.py serves a request on its route
ApiRequest(query, header) ==
    /\ rres' = Respond(ApiRoot, app, API_KEYS, query, header, NoCredentials)
    /\ UNCHANGED <<routes, lifespan, hooks>>
    /\ UNCHANGED <<logger_vars, config_vars, auth_vars, db_vars, tool_vars>>

\* The arguments of the decorators: allow_anonymous is None when not given
AllowAnonymousArgs == {PyNone, PyBool(TRUE), PyBool(FALSE)}

\* The api-key query parameter and the x-api-key header of a request
RequestKeys ==
    {<<None, None>>, <<"k1", None>>, <<None, "k1">>, <<None, "k3">>, <<"k3", "k2">>}

RequestCredentials ==
    {NoCredentials, HTTPBasicCredentials("alice", "secret"),
     HTTPBasicCredentials("alice", "guess"), HTTPBasicCredentials("", "secret")}

NextApp ==
    \/ Startup
    \/ Shutdown
    \/ \E k \in BOOLEAN, a \in BOOLEAN, n \in AllowAnonymousArgs : get(k, a, n)
    \/ \E k \in BOOLEAN, a \in BOOLEAN, n \in AllowAnonymousArgs : post(k, a, n)
    \/ \E k \in BOOLEAN, a \in BOOLEAN, n \in AllowAnonymousArgs : put(k, a, n)
    \/ \E k \in BOOLEAN, a \in BOOLEAN, n \in AllowAnonymousArgs : delete(k, a, n)
    \/ \E k \in BOOLEAN, a \in BOOLEAN, n \in AllowAnonymousArgs : options(k, a, n)
    \/ \E k \in BOOLEAN, a \in BOOLEAN, n \in AllowAnonymousArgs : head(k, a, n)
    \/ \E k \in BOOLEAN, a \in BOOLEAN, n \in AllowAnonymousArgs : patch(k, a, n)
    \/ \E k \in BOOLEAN, a \in BOOLEAN, n \in AllowAnonymousArgs : trace(k, a, n)
    \/ \E i \in 1..MaxRoutes, k \in RequestKeys, c \in RequestCredentials :
          Request(i, k[1], k[2], c)
    \/ \E k \in RequestKeys : ApiRequest(k[1], k[2])

\* The on_start and on_stop arguments of the constructor: None, a function
\* that returns, a function that raises, and a value that is not callable
Callbacks == {PyNone, Hook, RaisingHook, PyInt(1)}

\* example.py:81-83: the route "/" registered with @api.get("/")
HomeRoute == Registered(DefaultApp, FALSE, FALSE, PyNone)

\* The server of example.py: it starts, serves its route and stops
NextLifespan ==
    \/ Startup
    \/ Shutdown
    \/ \E k \in RequestKeys, c \in RequestCredentials :
          Request(1, k[1], k[2], c)

\* Nothing is registered, the server is not started
AppIdle ==
    /\ routes = <<>>
    /\ lifespan = "created"
    /\ hooks = <<>>
    /\ rres = NoRequest

(***************************************************************************)
(* pyapi/jsondb.py: the JSON store                                         *)
(***************************************************************************)

\* A dict of the store: its items in insertion order
JsonObject(items) == [t |-> "dict", v |-> items]

Item(key, value) == [key |-> key, value |-> value]

\* JSON text is a sequence of tokens: the punctuation, the strings and null
\* (the white space of indent=2 is left out; the trees of the model hold
\* dicts, lists, strings and None)
Punct(c) == [k |-> "punct", v |-> c]

StrTok(s) == [k |-> "string", v |-> s]

NullTok == [k |-> "null", v |-> "null"]

\* json.dumps
RECURSIVE json_dumps(_)
RECURSIVE DumpItems(_)
RECURSIVE DumpElements(_)
json_dumps(x) ==
    CASE x.t = "none" -> <<NullTok>>
      [] x.t = "str" -> <<StrTok(x.v)>>
      [] x.t = "dict" -> <<Punct("{")>> \o DumpItems(x.v) \o <<Punct("}")>>
      [] x.t = "list" -> <<Punct("[")>> \o DumpElements(x.v) \o <<Punct("]")>>

DumpItems(items) ==
    IF Len(items) = 0 THEN <<>>
    ELSE <<StrTok(items[1].key), Punct(":")>> \o json_dumps(items[1].value)
            \o (IF Len(items) > 1 THEN <<Punct(",")>> \o DumpItems(Tail(items))
                ELSE <<>>)

DumpElements(l) ==
    IF Len(l) = 0 THEN <<>>
    ELSE json_dumps(l[1])
            \o (IF Len(l) > 1 THEN <<Punct(",")>> \o DumpElements(Tail(l))
                ELSE <<>>)

\* The result of parsing a value that starts at token i: the value and the
\* place of the token after it, or a JSONDecodeError
Parsed(value, next) == [ok |-> TRUE, value |-> value, next |-> next]

JSONDecodeError == [ok |-> FALSE, value |-> PyNone, next |-> 0]

IsPunct(toks, i, c) == i <= Len(toks) /\ toks[i] = Punct(c)

\* d[key] = value on a dict under construction: a repeated key keeps its
\* place and takes the last value
SetItem(items, key, value) ==
    IF \E i \in DOMAIN items : items[i].key = key
    THEN [i \in DOMAIN items |->
            IF items[i].key = key THEN Item(key, value) ELSE items[i]]
    ELSE Append(items, Item(key, value))

\* json.loads
RECURSIVE ParseValue(_, _)
RECURSIVE ParseMembers(_, _, _)
RECURSIVE ParseElements(_, _, _)
ParseValue(toks, i) ==
    IF i > Len(toks) THEN JSONDecodeError
    ELSE IF toks[i].k = "null" THEN Parsed(PyNone, i + 1)
    ELSE IF toks[i].k = "string" THEN Parsed(PyStr(toks[i].v), i + 1)
    ELSE IF IsPunct(toks, i, "{")
    THEN IF IsPunct(toks, i + 1, "}") THEN Parsed(JsonObject(<<>>), i + 2)
         ELSE ParseMembers(toks, i + 1, <<>>)
    ELSE IF IsPunct(toks, i, "[")
    THEN IF IsPunct(toks, i + 1, "]") THEN Parsed(PyList(<<>>), i + 2)
         ELSE ParseElements(toks, i + 1, <<>>)
    ELSE JSONDecodeError

\* The members of an object from token i, after the members of items
ParseMembers(toks, i, items) ==
    IF i + 1 > Len(toks) \/ toks[i].k # "string" \/ ~IsPunct(toks, i + 1, ":")
    THEN JSONDecodeError
    ELSE LET r == ParseValue(toks, i + 2)
         IN  IF ~r.ok THEN JSONDecodeError
             ELSE IF IsPunct(toks, r.next, ",")
             THEN ParseMembers(toks, r.next + 1, SetItem(items, toks[i].v, r.value))
             ELSE IF IsPunct(toks, r.next, "}")
             THEN Parsed(JsonObject(SetItem(items, toks[i].v, r.value)), r.next + 1)
             ELSE JSONDecodeError

\* The elements of an array from token i, after the elements of l
ParseElements(toks, i, l) ==
    LET r == ParseValue(toks, i)
    IN  IF ~r.ok THEN JSONDecodeError
        ELSE IF IsPunct(toks, r.next, ",")
        THEN ParseElements(toks, r.next + 1, Append(l, r.value))
        ELSE IF IsPunct(toks, r.next, "]")
        THEN Parsed(PyList(Append(l, r.value)), r.next + 1)
        ELSE JSONDecodeError

json_loads(text) ==
    LET r == ParseValue(text, 1)
    IN  IF r.ok /\ r.next = Len(text) + 1 THEN r ELSE JSONDecodeError

\* The names bound by a class body, in the order of the statements
Binding(name, value) == [name |-> name, value |-> value]

\* jsondb.py:20-117
JsonDB_body ==
    <<Binding("triggerAutosave", PyBool(FALSE)),
      Binding("_filename", PyNone),
      Binding("_unserialize", PyFn),
      Binding("loadFromJsonFile", PyFn),
      Binding("wipe", PyFn),
      Binding("_serialize", PyFn),
      Binding("__init__", PyFn),
      Binding("save", PyFn),
      Binding("triggerAutosave", PyFn),
      Binding("__str__", PyFn),
      Binding("asObject", PyFn)>>

\* jsondb.py:119-130
EmptyJsonDB_body ==
    <<Binding("_unserialize", PyFn), Binding("_serialize", PyFn)>>

\* A class derived by the user of the store, as the docstring of JsonDB asks:
\* it keeps the parsed content when it is a dict
MappingDB_body ==
    <<Binding("_unserialize", PyFn), Binding("_serialize", PyFn)>>

\* The class bodies searched for an attribute of an instance, in order
Mro(cls) ==
    CASE cls = "EmptyJsonDB" -> <<EmptyJsonDB_body, JsonDB_body>>
      [] cls = "MappingDB" -> <<MappingDB_body, JsonDB_body>>
      [] OTHER -> <<JsonDB_body>>

Found(value) == [found |-> TRUE, value |-> value]

NotFound == [found |-> FALSE, value |-> PyNone]

\* A name of a class body with the first of its bindings, the flag
ClassAttribute_first_binding(body, name) ==
    LET bound == {i \in DOMAIN body : body[i].name = name}
    IN  IF bound = {} THEN NotFound
        ELSE Found(body[CHOOSE i \in bound : \A j \in bound : i <= j].value)

\* A name of a class body is bound to the value of its last binding
ClassAttribute(body, name) ==
    LET bound == {i \in DOMAIN body : body[i].name = name}
    IN  IF bound = {} THEN NotFound
        ELSE Found(body[CHOOSE i \in bound : \A j \in bound : j <= i].value)

RECURSIVE MroAttribute(_, _)
MroAttribute(bodies, name) ==
    IF Len(bodies) = 0 THEN NotFound
    ELSE IF ClassAttribute(Head(bodies), name).found
    THEN ClassAttribute(Head(bodies), name)
    ELSE MroAttribute(Tail(bodies), name)

\* jsondb.py:81-87: the attributes __init__ sets on the instance
InstanceAttributes ==
    {"autosave", "_filename", "_tokens", "_redirections", "_deleted_redirections"}

\* self.name where name is called: the method, or what else the name is
\* bound to; the instance has no attribute of the names the model looks up
\* this way
GetAttr(self, name) ==
    IF name \in InstanceAttributes THEN Found(PyNone)
    ELSE MroAttribute(Mro(self.cls), name)

\* jsondb.py:81-87; data is the attribute of MappingDB
JsonDB_init(cls, filename, autosave) ==
    [cls |-> cls, autosave |-> autosave, _filename |-> filename,
     _tokens |-> JsonObject(<<>>), _redirections |-> JsonObject(<<>>),
     _deleted_redirections |-> JsonObject(<<>>), data |-> PyNone]

\* The outcome of a method of the store: the instance and the files after
\* it, the value returned, and the exception raised ("" when none)
Outcome(self, files, value, error) ==
    [self |-> self, files |-> files, value |-> value, raised |-> error # "",
     error |-> error]

\* jsondb.py:32-38, 125-126, and the _unserialize of MappingDB
_unserialize(self, parsed_content, files) ==
    CASE self.cls = "EmptyJsonDB" -> Outcome(self, files, PyBool(TRUE), "")
      [] self.cls = "MappingDB" ->
            IF parsed_content.t = "dict"
            THEN Outcome([self EXCEPT !.data = parsed_content], files,
                         PyBool(TRUE), "")
            ELSE Outcome(self, files, PyBool(FALSE), "")
      [] OTHER -> Outcome(self, files, PyNone, "Exception: _unserialize not implemented")

\* jsondb.py:70-79, 127-130, and the _serialize of MappingDB
_serialize(self, files) ==
    CASE self.cls = "EmptyJsonDB" ->
            Outcome(self, files,
                    JsonObject(<<Item("message", PyStr("Empty Dummy DB"))>>), "")
      [] self.cls = "MappingDB" -> Outcome(self, files, self.data, "")
      [] OTHER -> Outcome(self, files, PyNone, "Exception: _serialize not implemented")

\* A file of the store's directory: absent, a directory, or a file and its text
NoFile == [kind |-> "absent", text |-> <<>>]

Directory == [kind |-> "dir", text |-> <<>>]

TextFile(text) == [kind |-> "file", text |-> text]

\* os.path.isfile
isfile(files, filename) ==
    filename \in DOMAIN files /\ files[filename].kind = "file"

\* loadFromJsonFile with the file name set before the content is checked
loadFromJsonFile_sets_name_first(self, filename, files) ==
    IF ~isfile(files, filename)
    THEN Outcome(self, files, PyNone, "Exception: is not a file")
    ELSE LET named == [self EXCEPT !._filename = filename]
             parsed_content == json_loads(files[filename].text)
         IN  IF ~parsed_content.ok
             THEN Outcome(named, files, PyNone, "Exception: invalid JSON file")
             ELSE LET u == _unserialize(named, parsed_content.value, files)
                  IN  IF u.raised \/ ~Truthy(u.value)
                      THEN Outcome(u.self, files, PyNone,
                                   "Exception: invalid JSON file")
                      ELSE Outcome(u.self, files, PyNone, "")

\* jsondb.py:40-63
loadFromJsonFile(self, filename, files) ==
    IF ~isfile(files, filename)
    THEN Outcome(self, files, PyNone, "Exception: is not a file")
    ELSE LET parsed_content == json_loads(files[filename].text)
         IN  IF ~parsed_content.ok
             THEN Outcome(self, files, PyNone, "Exception: invalid JSON file")
             ELSE LET u == _unserialize(self, parsed_content.value, files)
                  IN  IF u.raised \/ ~Truthy(u.value)
                      THEN Outcome(u.self, files, PyNone,
                                   "Exception: invalid JSON file")
                      ELSE Outcome([u.self EXCEPT !._filename = filename],
                                   files, PyNone, "")

\* save that returns without an error when no file name is set
save_silent_without_filename(self, files) ==
    IF self._filename = None
    THEN Outcome(self, files, PyNone, "")
    ELSE Outcome(self, files, PyNone, "AttributeError: _objectToSave")

\* jsondb.py:89-100.  Line 98 calls self._objectToSave(), a name that neither
\* the instance nor a class of the repository binds: the lookup raises
\* AttributeError before remove_nones, json.dumps and open are reached, so
\* that no file is opened or written by any call.
save(self, files) ==
    IF self._filename = None
    THEN Outcome(self, files, PyNone, "Exception: filename is not set")
    ELSE Outcome(self, files, PyNone,
                 IF GetAttr(self, "_objectToSave").found THEN ""
                 ELSE "AttributeError: _objectToSave")

\* jsondb.py:102-106, called as db.triggerAutosave(): the name is looked up
\* on the instance and called
triggerAutosave(self, files) ==
    LET method == GetAttr(self, "triggerAutosave")
    IN  IF ~method.found
        THEN Outcome(self, files, PyNone, "AttributeError: triggerAutosave")
        ELSE IF ~Callable(method.value)
        THEN Outcome(self, files, PyNone, "TypeError: object is not callable")
        ELSE IF self.autosave /\ self._filename # None
        THEN save(self, files)
        ELSE Outcome(self, files, PyNone, "")

\* The last call on the store: the method, its argument, the instance and
\* the files before the call, and the outcome
DbCall(op, arg, self, files, out) ==
    [op |-> op, arg |-> arg, before |-> self, files |-> files,
     raised |-> out.raised, error |-> out.error]

NoDbCall ==
    [op |-> "none", arg |-> None, before |-> JsonDB_init("JsonDB", None, FALSE),
     files |-> <<>>, raised |-> FALSE, error |-> ""]

\* db.loadFromJsonFile(filename)
LoadFromJsonFile(filename) ==
    /\ LET out == loadFromJsonFile(db, filename, disk)
       IN  /\ db' = out.self
           /\ disk' = out.files
           /\ dres' = DbCall("loadFromJsonFile", filename, db, disk, out)
    /\ UNCHANGED <<logger_vars, config_vars, auth_vars, app_vars, tool_vars>>

\* db.save()
Save ==
    /\ LET out == save(db, disk)
       IN  /\ db' = out.self
           /\ disk' = out.files
           /\ dres' = DbCall("save", None, db, disk, out)
    /\ UNCHANGED <<logger_vars, config_vars, auth_vars, app_vars, tool_vars>>

\* db.triggerAutosave()
TriggerAutosave ==
    /\ LET out == triggerAutosave(db, disk)
       IN  /\ db' = out.self
           /\ disk' = out.files
           /\ dres' = DbCall("triggerAutosave", None, db, disk, out)
    /\ UNCHANGED <<logger_vars, config_vars, auth_vars, app_vars, tool_vars>>

\* The paths of the model and the texts of the files
Paths == {"a.json", "b.json", "dir"}

SampleTree ==
    JsonObject(<<Item("a", PyStr("x")), Item("n", PyNone),
                 Item("l", PyList(<<PyNone, JsonObject(<<Item("m", PyNone)>>)>>))>>)

TextObject == json_dumps(SampleTree)

TextList == json_dumps(PyList(<<PyStr("x")>>))

\* TextObject without its closing brace
TextTruncated == SubSeq(TextObject, 1, Len(TextObject) - 1)

NextDb ==
    \/ \E filename \in Paths : LoadFromJsonFile(filename)
    \/ Save
    \/ TriggerAutosave

\* The store of a process that does not use it
DbIdle ==
    /\ db = JsonDB_init("JsonDB", None, FALSE)
    /\ disk = <<>>
    /\ dres = NoDbCall

WebIdle == AuthIdle /\ AppIdle /\ DbIdle

(***************************************************************************)
(* pyapi/utils.py: remove_nones                                            *)
(***************************************************************************)

\* The depth of the trees handed to remove_nones
MaxDepth == 4

\* utils.py:56-82.  The object is changed in place and returned: the value
\* is the object as the call leaves it.  A dict that is the value of a key
\* is cleaned by the call of line 77; the items of a list that is the value
\* of a key are handed to remove_nones one by one (line 79: the dicts among
\* them are cleaned in place, a list among them is returned as it is by line
\* 71), and the list the comprehension builds is bound to the loop variable
\* and dropped, so the list keeps its items, the None ones too.
RECURSIVE remove_nones(_)
remove_nones(o) ==
    CASE o.t = "none" -> PyNone
      [] o.t # "dict" -> o
      [] OTHER ->
            LET value(i) ==
                    CASE o.v[i].value.t = "none" -> o.v[i].value
                      [] o.v[i].value.t = "dict" -> remove_nones(o.v[i].value)
                      [] o.v[i].value.t = "list" ->
                            PyList([j \in DOMAIN o.v[i].value.v |->
                                IF o.v[i].value.v[j].t # "none"
                                THEN remove_nones(o.v[i].value.v[j])
                                ELSE o.v[i].value.v[j]])
                      [] OTHER -> o.v[i].value
                keys_to_delete == {i \in DOMAIN o.v : o.v[i].value.t = "none"}
                kept == SelectSeq(
                    [i \in DOMAIN o.v |->
                        [key |-> o.v[i].key, value |-> value(i),
                         delete |-> i \in keys_to_delete]],
                    LAMBDA item : ~item.delete)
            IN  JsonObject([i \in DOMAIN kept |-> Item(kept[i].key, kept[i].value)])

\* The trees of mappings, lists and scalars of a depth: a scalar, or a dict
\* or a list around a tree that is one level less deep
RECURSIVE Trees(_)
Trees(depth) ==
    IF depth = 0 THEN {PyStr("x"), PyNone}
    ELSE LET inner == Trees(depth - 1)
         IN  {PyStr("x"), PyNone}
             \cup {JsonObject(<<Item("a", x)>>) : x \in inner}
             \cup {JsonObject(<<Item("n", PyNone), Item("b", x)>>) : x \in inner}
             \cup {PyList(<<x>>) : x \in inner}
             \cup {PyList(<<PyNone, x>>) : x \in inner}

\* The last call of remove_nones: its argument and the object returned
UtilsCall(op, arg, value) == [op |-> op, arg |-> arg, value |-> value]

NoUtilsCall == UtilsCall("none", PyNone, PyNone)

\* remove_nones(obj)
RemoveNones ==
    /\ obj' = remove_nones(obj)
    /\ ures' = UtilsCall("remove_nones", obj, remove_nones(obj))
    /\ UNCHANGED <<logger_vars, config_vars, web_vars, race_vars, main_vars>>

NextUtils == RemoveNones

\* A process that does not call remove_nones
UtilsIdle ==
    /\ obj = PyNone
    /\ ures = NoUtilsCall

(***************************************************************************)
(* pyapi/debug.py: p_log called by several threads (the handlers of        *)
(* requests that the server runs at the same time)                         *)
(***************************************************************************)

\* The number of threads that call p_log
NThreads == 2

Threads == 1..NThreads

\* The levels of the messages of the threads
ThreadLevels == {S_INFO, S_DEBUG}

\* What a file holds and what a write hands to it: the text of a record, or
\* the end of a line
Text(line) == [newline |-> FALSE, line |-> line]

Newline == [newline |-> TRUE, line |-> Line("", <<>>, "", <<>>)]

\* The locals of a call of p_log: the level, whether the message passed the
\* level filter, the file object f (the path it was opened on and the data
\* written to it and not yet flushed), the exception caught or raised, and
\* the lines the call printed
Frame(level) ==
    [level |-> level, emitted |-> FALSE, f |-> None, buffer |-> <<>>,
     error |-> "", raised |-> FALSE, out |-> <<>>]

\* debug.py:52, the log string of thread t (its message is its number)
log_string(t) == LogString(frame[t].level, "m", <<t>>)

\* except that catches the errors of the operating system only
Caught_OSError_only(exc) == exc = "OSError"

\* debug.py:58, except Exception: OSError and TypeError are Exceptions
Caught(exc) == exc \in {"OSError", "TypeError"}

\* debug.py:55, open(LOG_FILE, "a") with the value LOG_FILE has when the
\* line runs: None is not a path (TypeError), a file that cannot be opened
\* for writing is an OSError
OpenError(logfile, canWrite) ==
    IF logfile = None THEN "TypeError"
    ELSE IF logfile \notin canWrite THEN "OSError"
    ELSE ""

\* debug.py:47-51: thread t calls p_log(level, t) and evaluates the level
\* filter
Enter(t, level) ==
    /\ pc[t] = "idle"
    /\ LET a == n_debug_val(Effects(LOG_FILE), LoggerCfg, level, 2)
           b == n_debug_val(a.st, LoggerCfg, LOG_LEVEL, 2)
           passes == ~a.raised /\ ~b.raised /\ LevelPasses(a.val, b.val)
       IN  /\ frame' = [frame EXCEPT ![t] = [Frame(level) EXCEPT
                            !.emitted = passes,
                            !.raised = a.raised \/ b.raised]]
           /\ pc' = [pc EXCEPT ![t] = IF passes THEN "check" ELSE "done"]
    /\ UNCHANGED <<logger_vars, logfiles>>
    /\ UNCHANGED <<config_vars, web_vars, utils_vars, main_vars>>

\* debug.py:53
CheckLogFile(t) ==
    /\ pc[t] = "check"
    /\ pc' = [pc EXCEPT ![t] = IF LOG_FILE # None THEN "open" ELSE "print"]
    /\ UNCHANGED <<logger_vars, frame, logfiles>>
    /\ UNCHANGED <<config_vars, web_vars, utils_vars, main_vars>>

\* debug.py:55: the global is read again for the call of open; an
\* exception that line 58 does not catch goes to the caller of p_log
Open(t) ==
    /\ pc[t] = "open"
    /\ LET exc == OpenError(LOG_FILE, writable)
       IN  IF exc = ""
           THEN /\ frame' = [frame EXCEPT ![t].f = LOG_FILE]
                /\ pc' = [pc EXCEPT ![t] = "write"]
           ELSE /\ frame' = [frame EXCEPT ![t].error = exc,
                                          ![t].raised = ~Caught(exc)]
                /\ pc' = [pc EXCEPT ![t] = IF Caught(exc) THEN "except" ELSE "done"]
    /\ UNCHANGED <<logger_vars, logfiles>>
    /\ UNCHANGED <<config_vars, web_vars, utils_vars, main_vars>>

\* debug.py:56: one write of the log string and the end of the line, to the
\* buffer of the file object
Write(t) ==
    /\ pc[t] = "write"
    /\ frame' = [frame EXCEPT ![t].buffer = @ \o <<Text(log_string(t)), Newline>>]
    /\ pc' = [pc EXCEPT ![t] = "flush"]
    /\ UNCHANGED <<logger_vars, logfiles>>
    /\ UNCHANGED <<config_vars, web_vars, utils_vars, main_vars>>

\* debug.py:57 and the end of the with block: the buffer is appended to the
\* file (opened in append mode) by one write, and the file is closed
Flush(t) ==
    /\ pc[t] = "flush"
    /\ logfiles' = [logfiles EXCEPT ![frame[t].f] = @ \o frame[t].buffer]
    /\ frame' = [frame EXCEPT ![t].buffer = <<>>]
    /\ pc' = [pc EXCEPT ![t] = "print"]
    /\ UNCHANGED logger_vars
    /\ UNCHANGED <<config_vars, web_vars, utils_vars, main_vars>>

\* debug.py:58-61
Except(t) ==
    /\ pc[t] = "except"
    /\ frame' = [frame EXCEPT ![t].out = @ \o
                    << Line("err", <<>>, "Error writting to log file", <<>>),
                       Line("off", <<>>, "Deactivating writting to log file", <<>>) >>]
    /\ LOG_FILE' = None
    /\ file_failed' = TRUE
    /\ pc' = [pc EXCEPT ![t] = "print"]
    /\ UNCHANGED <<LOG_LEVEL, QUIET, writable, proc, exit_status, lres>>
    /\ UNCHANGED logfiles
    /\ UNCHANGED <<config_vars, web_vars, utils_vars, main_vars>>

\* debug.py:63-64, and the return of p_log
PrintRecord(t) ==
    /\ pc[t] = "print"
    /\ frame' = [frame EXCEPT ![t].out =
                    IF ~QUIET THEN Append(@, log_string(t)) ELSE @]
    /\ pc' = [pc EXCEPT ![t] = "done"]
    /\ UNCHANGED <<logger_vars, logfiles>>
    /\ UNCHANGED <<config_vars, web_vars, utils_vars, main_vars>>

NextRace ==
    \/ \E t \in Threads, level \in ThreadLevels : Enter(t, level)
    \/ \E t \in Threads : CheckLogFile(t)
    \/ \E t \in Threads : Open(t)
    \/ \E t \in Threads : Write(t)
    \/ \E t \in Threads : Flush(t)
    \/ \E t \in Threads : Except(t)
    \/ \E t \in Threads : PrintRecord(t)
    \/ \E f \in LogFiles : EnvSetWritable(f)

\* A process whose threads do not log
RaceIdle ==
    /\ pc = [t \in Threads |-> "idle"]
    /\ frame = [t \in Threads |-> Frame(S_INFO)]
    /\ logfiles = [f \in LogFiles |-> <<>>]

(***************************************************************************)
(* example.py and pyapi/__main__.py: the two front ends                    *)
(***************************************************************************)

\* The names of the options, as attributes of the configuration (N_PORT is
\* defined with the loader) and as keys of a configuration file
N_LOG_LEVEL == <<"L", "O", "G", "_", "L", "E", "V", "E", "L">>

N_LOG_FILE == <<"L", "O", "G", "_", "F", "I", "L", "E">>

N_QUIET == <<"Q", "U", "I", "E", "T">>

N_IP_ADDRESS == <<"I", "P", "_", "A", "D", "D", "R", "E", "S", "S">>

N_DATABASE_FILE == <<"D", "A", "T", "A", "B", "A", "S", "E", "_", "F", "I", "L", "E">>

N_LOG_API_CALLS == <<"L", "O", "G", "_", "A", "P", "I", "_", "C", "A", "L", "L", "S">>

N_MUTE_UVICORN_LOGS == <<"M", "U", "T", "E", "_", "U", "V", "I", "C", "O", "R", "N", "_", "L", "O", "G", "S">>

N_Config == <<"C", "o", "n", "f", "i", "g">>

K_log_level == <<"l", "o", "g", "_", "l", "e", "v", "e", "l">>

K_log_file == <<"l", "o", "g", "_", "f", "i", "l", "e">>

K_quiet == <<"q", "u", "i", "e", "t">>

K_ip_address == <<"i", "p", "_", "a", "d", "d", "r", "e", "s", "s">>

K_database_file == <<"d", "a", "t", "a", "b", "a", "s", "e", "_", "f", "i", "l", "e">>

\* The values of -i: an address, a number that is not an octet, a host name
IP_10_0_0_1 == <<"1", "0", ".", "0", ".", "0", ".", "1">>

IP_10_0_0_256 == <<"1", "0", ".", "0", ".", "0", ".", "2", "5", "6">>

IP_localhost == <<"l", "o", "c", "a", "l", "h", "o", "s", "t">>

IP_0_0_0_0 == <<"0", ".", "0", ".", "0", ".", "0">>

IP_127_0_0_1 == <<"1", "2", "7", ".", "0", ".", "0", ".", "1">>

\* The characters of a decimal number and their values
DigitValue(c) ==
    CASE c = "0" -> 0 [] c = "1" -> 1 [] c = "2" -> 2 [] c = "3" -> 3
      [] c = "4" -> 4 [] c = "5" -> 5 [] c = "6" -> 6 [] c = "7" -> 7
      [] c = "8" -> 8 [] c = "9" -> 9 [] OTHER -> -1

\* The parts of a string between the separators
RECURSIVE Split(_, _)
Split(s, sep) ==
    IF \A i \in DOMAIN s : s[i] # sep THEN <<s>>
    ELSE LET k == CHOOSE i \in DOMAIN s :
                     s[i] = sep /\ \A j \in 1..(i - 1) : s[j] # sep
         IN  <<SubSeq(s, 1, k - 1)>> \o Split(SubSeq(s, k + 1, Len(s)), sep)

\* The number that a string of digits writes
RECURSIVE Number(_)
Number(digits) ==
    IF digits = <<>> THEN 0
    ELSE 10 * Number(SubSeq(digits, 1, Len(digits) - 1))
            + DigitValue(digits[Len(digits)])

\* One to three digits that write a number of at most 255
IsOctet(part) ==
    /\ Len(part) \in 1..3
    /\ \A i \in DOMAIN part : DigitValue(part[i]) >= 0
    /\ Number(part) <= 255

\* ip_address that takes every string for an address
ip_address_accepts_all(address) == TRUE

\* example.py:70 and __main__.py:91, ipaddress.ip_address(args.ip), for a
\* string without a colon (not the text of an IPv6 address): it returns for
\* four octets separated by dots and raises ValueError for anything else.
\* The value is whether it returns.
ip_address(address) ==
    LET octets == Split(address, ".")
    IN  Len(octets) = 4 /\ \A i \in DOMAIN octets : IsOctet(octets[i])

\* The two front ends
FrontEnds == {"example", "pyapi"}

\* The object that holds the configuration of a front end: the Config object
\* of example.py:36, the module pyapi.config of __main__.py:42
ConfigObject(f) == IF f = "example" THEN "example.config" ELSE "pyapi.config"

\* example.py:36-42, Config(LOG_LEVEL="INFO", ...); load stands for the
\* methods of the class
ExampleConfig ==
    (N_LOG_LEVEL :> PyStr(S_INFO)) @@ (N_LOG_FILE :> PyNone)
    @@ (N_QUIET :> PyBool(FALSE)) @@ (N_PORT :> PyInt(8000))
    @@ (N_IP_ADDRESS :> PyStr(IP_0_0_0_0)) @@ (N_load :> PyFn)

\* config.py:16-22 and 84, the names of the module pyapi.config: modules
\* (sys, os, yaml: os stands for them) and callables (Any, Union, p_warning,
\* load and the class Config: load and Config stand for them).  The module
\* binds no other name.
ModuleConfig == (N_os :> PyModule) @@ (N_load :> PyFn) @@ (N_Config :> PyFn)

\* hasattr(object, name)
HasAttr(h, id, name) == name \in DOMAIN h[id]

\* object.name = value
SetAttr(h, id, name, value) == [h EXCEPT ![id] = (name :> value) @@ @]

\* if flag: config.name = value
Override(h, id, given, name, value) ==
    IF given THEN SetAttr(h, id, name, value) ELSE h

\* x is not None
NotNone(x) == x.t # "none"

\* example.py:48-59
example_overrides(h, a) ==
    LET id == ConfigObject("example")
        h1 == Override(h, id, a.verbose, N_LOG_LEVEL, PyStr(S_DEBUG))
        h2 == Override(h1, id, NotNone(a.log_file), N_LOG_FILE, a.log_file)
        h3 == Override(h2, id, a.quiet, N_QUIET, PyBool(TRUE))
    IN  Override(h3, id, NotNone(a.port), N_PORT, a.port)

\* __main__.py:62-79
main_overrides(h, a) ==
    LET id == ConfigObject("pyapi")
        h1 == Override(h, id, a.verbose, N_LOG_LEVEL, PyStr(S_DEBUG))
        h2 == Override(h1, id, a.verbose_more, N_LOG_LEVEL, PyStr(S_TRACE))
        h3 == Override(h2, id, NotNone(a.log_file), N_LOG_FILE, a.log_file)
        h4 == Override(h3, id, a.quiet, N_QUIET, PyBool(TRUE))
        h5 == Override(h4, id, NotNone(a.database_file), N_DATABASE_FILE,
                       a.database_file)
    IN  Override(h5, id, NotNone(a.port), N_PORT, a.port)

\* __main__.py:45: the candidate files, named after SHORTNAME
DefaultConfigFiles ==
    << "SHORTNAME.conf", "etc/SHORTNAME.conf", "/etc/SHORTNAME.conf",
       "/etc/SHORTNAME/SHORTNAME.conf", "/usr/local/etc/SHORTNAME.conf" >>

\* __main__.py:45-49
config_files(a) ==
    (IF NotNone(a.config_file) THEN <<a.config_file.v>> ELSE <<>>)
        \o DefaultConfigFiles

\* __main__.py:56-60: the first candidate that is a file, None when none is
config_file_used(a, fsys) ==
    LET files == config_files(a)
        found == {i \in DOMAIN files : fsys[files[i]].exists}
    IN  IF found = {} THEN None
        ELSE files[CHOOSE i \in found : \A j \in found : i <= j]

\* The value of a Python variable as the logger keeps it: None, or the
\* string, or the boolean
Plain(x) == IF x.t = "none" THEN None ELSE x.v

\* The call of uvicorn.run: whether it was made, and its arguments
ServerRun(host, port, log_level) ==
    [started |-> TRUE, host |-> host, port |-> port, log_level |-> log_level]

NotStarted ==
    [started |-> FALSE, host |-> PyNone, port |-> PyNone, log_level |-> <<>>]

\* An exception that nothing catches ends the process: the interpreter
\* prints the traceback and exits with status 1
Uncaught(error) ==
    /\ proc' = "exited"
    /\ exit_status' = 1
    /\ merr' = error
    /\ mpc' = "exited"

\* sys.exit(status), and the return of main (status 0)
Exit(status) ==
    /\ proc' = "exited"
    /\ exit_status' = status
    /\ merr' = ""
    /\ mpc' = "exited"

\* main goes on to its next step
GoOn(step) ==
    /\ mpc' = step
    /\ merr' = ""
    /\ UNCHANGED <<proc, exit_status>>

\* The globals of the logger after calls of p_log whose effects are st
LoggedBy(st) ==
    /\ LOG_FILE' = st.LOG_FILE
    /\ file_failed' = (file_failed \/ st.failed)
    /\ UNCHANGED <<LOG_LEVEL, QUIET>>

\* debug.py:69-70
p_debug(st, cfg, msg, depth) == p_log(st, cfg, S_DEBUG, msg, <<>>, depth + 1)

\* debug.py:81-82, the logging step of p_fatal
p_fatal_log(st, cfg, msg, depth) == p_log(st, cfg, S_FATAL, msg, <<>>, depth + 1)

\* example.py:35-64: the Config object, the configuration file, the
\* options of the command line, and the logger
ExampleConfigure ==
    /\ front = "example"
    /\ mpc = "configure"
    /\ LET id == ConfigObject("example")
           r == IF NotNone(args.config_file)
                THEN Config_load(heap, id, args.config_file, FALSE, NoSubkey,
                                 fs, Effects(LOG_FILE), LoggerCfg)
                ELSE LoadState(heap, FALSE, <<>>, <<>>, Effects(LOG_FILE))
           config == example_overrides(r.heap, args)
       IN  IF r.raised
           THEN /\ heap' = r.heap
                /\ Uncaught("TypeError")
                /\ UNCHANGED <<LOG_LEVEL, LOG_FILE, QUIET, file_failed>>
           ELSE /\ heap' = config
                /\ LOG_FILE' = Plain(config[id][N_LOG_FILE])
                /\ LOG_LEVEL' = Plain(config[id][N_LOG_LEVEL])
                /\ QUIET' = Plain(config[id][N_QUIET])
                /\ file_failed' = FALSE
                /\ GoOn("ip")
    /\ UNCHANGED <<writable, lres, fs, nloads, cres, front, args, server>>
    /\ UNCHANGED <<web_vars, utils_vars, race_vars>>

\* example.py:66-73
ExampleCheckIp ==
    /\ front = "example"
    /\ mpc = "ip"
    /\ LET id == ConfigObject("example")
           d == p_debug(Effects(LOG_FILE), LoggerCfg, "m", 1)
       IN  IF d.raised
           THEN /\ LoggedBy(d.st)
                /\ Uncaught("RecursionError")
                /\ UNCHANGED heap
           ELSE IF ~NotNone(args.ip)
           THEN /\ LoggedBy(d.st)
                /\ GoOn("start")
                /\ UNCHANGED heap
           ELSE IF ip_address(args.ip.v)
           THEN /\ LoggedBy(d.st)
                /\ GoOn("start")
                /\ heap' = SetAttr(heap, id, N_IP_ADDRESS, args.ip)
           ELSE LET f == p_fatal_log(d.st, LoggerCfg, "m", 1)
                IN  /\ LoggedBy(f.st)
                    /\ IF f.raised THEN Uncaught("RecursionError") ELSE Exit(1)
                    /\ UNCHANGED heap
    /\ UNCHANGED <<writable, lres, fs, nloads, cres, front, args, server>>
    /\ UNCHANGED <<web_vars, utils_vars, race_vars>>

\* example.py:75-86 and uvicorn.py:20-74: the FastAPIX instance, its route
\* "/", and the call of uvicorn.run
ExampleStart ==
    /\ front = "example"
    /\ mpc = "start"
    /\ LET id == ConfigObject("example")
           d == p_debug(Effects(LOG_FILE), LoggerCfg, "m", 1)
       IN  /\ LoggedBy(d.st)
           /\ IF d.raised
              THEN /\ Uncaught("RecursionError")
                   /\ UNCHANGED <<app, routes, server>>
              ELSE /\ app' = FastAPIX_init(PyNone, PyNone, PyNone, PyNone, TRUE).self
                   /\ routes' = <<HomeRoute>>
                   /\ server' = ServerRun(heap[id][N_IP_ADDRESS], heap[id][N_PORT],
                                          Lower(heap[id][N_LOG_LEVEL].v))
                   /\ GoOn("serving")
    /\ UNCHANGED <<writable, lres, config_vars, front, args>>
    /\ UNCHANGED <<API_KEYS, AUTHORIZED_USERS, ALLOW_ANONYMOUS_USER, ares>>
    /\ UNCHANGED <<lifespan, hooks, rres>>
    /\ UNCHANGED <<db_vars, utils_vars, race_vars>>

\* __main__.py:42-86: the configuration file, the options of the command
\* line, and the report of the file used.  load returns the list of the
\* files used: an empty list is false.
MainConfigure ==
    /\ front = "pyapi"
    /\ mpc = "configure"
    /\ LET id == ConfigObject("pyapi")
           used == config_file_used(args, fs)
           r == IF used # None
                THEN load(heap, PyStr(used), FALSE, id, NoSubkey, fs,
                          Effects(LOG_FILE), LoggerCfg)
                ELSE LoadState(heap, FALSE, <<>>, <<>>, Effects(LOG_FILE))
           config_file_success == Len(r.used_files) > 0
       IN  IF r.raised
           THEN /\ heap' = r.heap
                /\ LoggedBy(r.st)
                /\ Uncaught("TypeError")
           ELSE /\ heap' = main_overrides(r.heap, args)
                /\ IF used = None
                   THEN /\ LoggedBy(r.st)
                        /\ GoOn("ip")
                   ELSE IF ~config_file_success
                   THEN LET f == p_fatal_log(r.st, LoggerCfg, "m", 1)
                        IN  /\ LoggedBy(f.st)
                            /\ IF f.raised THEN Uncaught("RecursionError")
                               ELSE Exit(1)
                   ELSE LET i == p_info(r.st, LoggerCfg, "m", 1)
                        IN  /\ LoggedBy(i.st)
                            /\ IF i.raised THEN Uncaught("RecursionError")
                               ELSE GoOn("ip")
    /\ UNCHANGED <<writable, lres, fs, nloads, cres, front, args, server>>
    /\ UNCHANGED <<web_vars, utils_vars, race_vars>>

\* __main__.py:88-94
MainCheckIp ==
    /\ front = "pyapi"
    /\ mpc = "ip"
    /\ LET id == ConfigObject("pyapi")
       IN  IF ~NotNone(args.ip)
           THEN /\ GoOn("start")
                /\ UNCHANGED <<heap, LOG_LEVEL, LOG_FILE, QUIET, file_failed>>
           ELSE IF ip_address(args.ip.v)
           THEN /\ GoOn("start")
                /\ heap' = SetAttr(heap, id, N_IP_ADDRESS, args.ip)
                /\ UNCHANGED <<LOG_LEVEL, LOG_FILE, QUIET, file_failed>>
           ELSE LET f == p_fatal_log(Effects(LOG_FILE), LoggerCfg, "m", 1)
                IN  /\ LoggedBy(f.st)
                    /\ IF f.raised THEN Uncaught("RecursionError") ELSE Exit(1)
                    /\ UNCHANGED heap
    /\ UNCHANGED <<writable, lres, fs, nloads, cres, front, args, server>>
    /\ UNCHANGED <<web_vars, utils_vars, race_vars>>

\* __main__.py:122, 129-131 and api.py:19-58: the attributes of pyapi.config
\* that are read on the way to the call of uvicorn.run, in the order of the
\* reads (dependencies.py:18 imports three of them by name)
AttributesRead(a) ==
    <<N_LOG_API_CALLS>>
    \o (IF a.no_run THEN <<>>
        ELSE <<N_DATABASE_FILE, N_IP_ADDRESS, N_PORT, N_LOG_LEVEL>>)

\* The first name of the list that the object does not have, <<>> when it
\* has them all
FirstMissing(h, id, names) ==
    LET missing == {i \in DOMAIN names : ~HasAttr(h, id, names[i])}
    IN  IF missing = {} THEN <<>>
        ELSE names[CHOOSE i \in missing : \A j \in missing : i <= j]

\* __main__.py:96-131: the log filters of uvicorn and, unless -N is given,
\* the import of the api and the call of uvicorn.run.  A read of an
\* attribute that the module pyapi.config does not have raises
\* AttributeError.
MainStart ==
    /\ front = "pyapi"
    /\ mpc = "start"
    /\ LET id == ConfigObject("pyapi")
       IN  IF FirstMissing(heap, id, AttributesRead(args)) # <<>>
           THEN /\ Uncaught("AttributeError")
                /\ UNCHANGED server
           ELSE IF args.no_run
           THEN /\ Exit(0)
                /\ UNCHANGED server
           ELSE /\ server' = ServerRun(heap[id][N_IP_ADDRESS], heap[id][N_PORT],
                                       Lower(heap[id][N_LOG_LEVEL].v))
                /\ GoOn("serving")
    /\ UNCHANGED <<LOG_LEVEL, LOG_FILE, QUIET, writable, file_failed, lres>>
    /\ UNCHANGED <<config_vars, front, args>>
    /\ UNCHANGED <<web_vars, utils_vars, race_vars>>

NextMain ==
    \/ ExampleConfigure
    \/ ExampleCheckIp
    \/ ExampleStart
    \/ MainConfigure
    \/ MainCheckIp
    \/ MainStart

\* The arguments of the command line, as argparse returns them
Args(port, verbose, verbose_more, ip, config_file, quiet, log_file,
     database_file, no_run) ==
    [port |-> port, verbose |-> verbose, verbose_more |-> verbose_more,
     ip |-> ip, config_file |-> config_file, quiet |-> quiet,
     log_file |-> log_file, database_file |-> database_file,
     no_run |-> no_run]

NoArgs == Args(PyNone, FALSE, FALSE, PyNone, PyNone, FALSE, PyNone, PyNone, FALSE)

\* The configuration files of the model: a file that sets every option, and
\* one that sets the port and a level that the logger does not know
ConfFull ==
    PyDict((K_log_level :> PyStr(S_TRACE)) @@ (K_log_file :> PyStr("var/app.log"))
         @@ (K_quiet :> PyBool(TRUE)) @@ (K_port :> PyInt(7000))
         @@ (K_ip_address :> PyStr(IP_127_0_0_1))
         @@ (K_database_file :> PyStr("db.json")))

ConfPort ==
    PyDict((K_port :> PyInt(7000)) @@ (K_log_level :> PyStr(S_WARNING)))

\* The files that exist: the file of -c and the first default candidate
ConfFiles(mine, first) ==
    [f \in {"my.conf"} \cup Range(DefaultConfigFiles) |->
        IF f = "my.conf" THEN mine
        ELSE IF f = DefaultConfigFiles[1] THEN first
        ELSE Absent]

\* No front end runs
MainIdle ==
    /\ front = "none"
    /\ args = NoArgs
    /\ mpc = "idle"
    /\ server = NotStarted
    /\ merr = ""

ToolIdle == UtilsIdle /\ RaceIdle /\ MainIdle

(***************************************************************************)
(* Specifications                                                          *)
(***************************************************************************)

\* The logger alone: callers set the globals and log, the environment makes
\* the log files writable or not.
InitLog ==
    /\ LoggerDefaults
    /\ writable \in SUBSET LogFiles
    /\ ConfigIdle
    /\ fs = [f \in FileNames |-> Absent]
    /\ WebIdle
    /\ ToolIdle

SpecLog == InitLog /\ [][NextLog]_vars

\* The configuration loader, with the logger as it is after import
InitConfig ==
    /\ LoggerDefaults
    /\ writable = LogFiles
    /\ ConfigIdle
    /\ \E a \in {Absent, File(ContentA1), File(ContentA2)},
          b \in {Absent, File(ContentB1), File(ContentB2)} :
            fs = ("A" :> a) @@ ("B" :> b) @@ ("C" :> Absent)
    /\ WebIdle
    /\ ToolIdle

SpecConfig == InitConfig /\ [][NextConfig]_vars

\* The auth dependencies: the globals of dependencies.py and the api_keys of
\* the instance are set before the first request and never change
InitAuth ==
    /\ LoggerDefaults
    /\ writable = LogFiles
    /\ ConfigIdle
    /\ fs = [f \in FileNames |-> Absent]
    /\ API_KEYS \in KeyLists
    /\ AUTHORIZED_USERS \in UserLists
    /\ ALLOW_ANONYMOUS_USER \in BOOLEAN
    /\ \E api_keys \in ApiKeysArgs :
         LET r == FastAPIX_init(PyNone, PyNone, api_keys, PyNone, TRUE)
         IN  ~r.raised /\ app = r.self
    /\ ares = NoAuthCall
    /\ AppIdle
    /\ DbIdle
    /\ ToolIdle

SpecAuth == InitAuth /\ [][NextAuth]_vars

\* The routes of a FastAPIX instance and of the app of api.py: the keys, the
\* auth_user callback and the anonymous policy are those of the constructor
InitApp ==
    /\ LoggerDefaults
    /\ writable = LogFiles
    /\ ConfigIdle
    /\ fs = [f \in FileNames |-> Absent]
    /\ API_KEYS \in {PyNone, PyList(<<>>), PyList(<<"k1", "k2">>)}
    /\ AUTHORIZED_USERS = PyNone
    /\ ALLOW_ANONYMOUS_USER = TRUE
    /\ \E auth_user \in {PyNone, CheckPassword}, allow_anonymous_users \in BOOLEAN :
         app = FastAPIX_init(PyNone, PyNone, API_KEYS, auth_user,
                             allow_anonymous_users).self
    /\ ares = NoAuthCall
    /\ AppIdle
    /\ DbIdle
    /\ ToolIdle

SpecApp == InitApp /\ [][NextApp]_vars

\* The lifespan of a FastAPIX instance: the callbacks are those of the
\* constructor, the route is the one of example.py:81-83
InitLifespan ==
    /\ LoggerDefaults
    /\ writable = LogFiles
    /\ ConfigIdle
    /\ fs = [f \in FileNames |-> Absent]
    /\ API_KEYS = PyNone
    /\ AUTHORIZED_USERS = PyNone
    /\ ALLOW_ANONYMOUS_USER = TRUE
    /\ \E on_start \in Callbacks, on_stop \in Callbacks :
         app = FastAPIX_init(on_start, on_stop, PyNone, PyNone, TRUE).self
    /\ ares = NoAuthCall
    /\ routes = <<HomeRoute>>
    /\ lifespan = "created"
    /\ hooks = <<>>
    /\ rres = NoRequest
    /\ DbIdle
    /\ ToolIdle

SpecLifespan == InitLifespan /\ [][NextLifespan]_vars

\* The store: an instance of JsonDB, of EmptyJsonDB or of a derived class,
\* constructed with or without a file name, and the files it finds
InitDb ==
    /\ LoggerDefaults
    /\ writable = LogFiles
    /\ ConfigIdle
    /\ fs = [f \in FileNames |-> Absent]
    /\ AuthIdle
    /\ AppIdle
    /\ \E cls \in {"JsonDB", "EmptyJsonDB", "MappingDB"},
          filename \in {None, "b.json"}, autosave \in BOOLEAN :
         db = JsonDB_init(cls, filename, autosave)
    /\ \E a \in {NoFile, TextFile(TextObject), TextFile(TextList),
                 TextFile(TextTruncated)},
          b \in {NoFile, TextFile(TextObject)} :
         disk = ("a.json" :> a) @@ ("b.json" :> b) @@ ("dir" :> Directory)
    /\ dres = NoDbCall
    /\ ToolIdle

SpecDb == InitDb /\ [][NextDb]_vars

\* remove_nones alone, called on a tree
InitUtils ==
    /\ LoggerDefaults
    /\ writable = LogFiles
    /\ ConfigIdle
    /\ fs = [f \in FileNames |-> Absent]
    /\ WebIdle
    /\ obj \in Trees(MaxDepth)
    /\ ures = NoUtilsCall
    /\ RaceIdle
    /\ MainIdle

SpecUtils == InitUtils /\ [][NextUtils]_vars

\* The threads of a server whose logger was configured with a log file
InitRace ==
    /\ LOG_LEVEL = S_INFO
    /\ LOG_FILE = "app.log"
    /\ QUIET \in BOOLEAN
    /\ proc = "running"
    /\ exit_status = -1
    /\ file_failed = FALSE
    /\ lres = NoCall
    /\ writable \in {LogFiles, LogFiles \ {"app.log"}}
    /\ ConfigIdle
    /\ fs = [f \in FileNames |-> Absent]
    /\ WebIdle
    /\ UtilsIdle
    /\ RaceIdle
    /\ MainIdle

SpecRace == InitRace /\ [][NextRace]_vars

\* A front end is started from the command line: the arguments are parsed,
\* the configuration holds what its constructor or its module gives it
InitMain ==
    /\ LoggerDefaults
    /\ writable \in {LogFiles, {}}
    /\ front \in FrontEnds
    /\ heap = (ConfigObject(front) :>
                  (IF front = "example" THEN ExampleConfig ELSE ModuleConfig))
    /\ nloads = 0
    /\ cres = NoLoad
    /\ \E mine \in {Absent, File(ConfFull), File(ConfPort)},
          first \in {Absent, File(ConfFull)} :
         /\ front = "example" => first = Absent
         /\ fs = ConfFiles(mine, first)
    /\ \E port \in {PyNone, PyInt(9000)}, verbose \in BOOLEAN,
          verbose_more \in BOOLEAN,
          ip \in {PyNone, PyStr(IP_10_0_0_1), PyStr(IP_10_0_0_256),
                  PyStr(IP_localhost)},
          config_file \in {PyNone, PyStr("my.conf")}, quiet \in BOOLEAN,
          log_file \in {PyNone, PyStr("app.log")},
          database_file \in {PyNone, PyStr("db.json")}, no_run \in BOOLEAN :
         /\ front = "example" =>
               ~verbose_more /\ ~NotNone(database_file) /\ ~no_run
         /\ front = "pyapi" => writable = LogFiles
         /\ args = Args(port, verbose, verbose_more, ip, config_file, quiet,
                        log_file, database_file, no_run)
    /\ mpc = "configure"
    /\ server = NotStarted
    /\ merr = ""
    /\ WebIdle
    /\ UtilsIdle
    /\ RaceIdle

SpecMain == InitMain /\ [][NextMain]_vars

(***************************************************************************)
(* Properties of the logger                                                *)
(***************************************************************************)

\* Two names are equal when case is ignored
SameName(a, b) ==
    /\ Len(a) = Len(b)
    /\ \A i \in 1..Len(a) : UpperChar(a[i]) = UpperChar(b[i])

\* The name is one of the seven levels
IsLevel(name) == \E i \in 1..7 : SameName(name, LevelList[i])

\* The position of a level in the order OUTPUT, FATAL, ..., TRACE
Position(name) == CHOOSE i \in 1..7 : SameName(name, LevelList[i])

\* A logger call was made (p_log, or p_output and p_fatal that call it)
Logged == lres.op # "none"

\* The line of the message of the last call
OwnLine == LogString(lres.level, "m", <<>>)

OwnCount(lines) == Cardinality({i \in 1..Len(lines) : lines[i] = OwnLine})

\* C7: for a message level and a configured level among the seven levels
\* (case ignored), p_log emits the message if and only if the position of its
\* level is at most the position of the configured level; OUTPUT is always
\* emitted; configured level INFO emits OUTPUT, FATAL, ERROR, WARN, INFO and
\* suppresses DEBUG and TRACE.
C7_LevelFilter ==
    (Logged /\ IsLevel(lres.level) /\ IsLevel(LOG_LEVEL)) =>
        /\ ~lres.raised
        /\ lres.emitted <=> (Position(lres.level) <= Position(LOG_LEVEL))
        /\ SameName(lres.level, S_OUTPUT) => lres.emitted
        /\ SameName(LOG_LEVEL, S_INFO) =>
              (lres.emitted <=> \E l \in {S_OUTPUT, S_FATAL, S_ERROR, S_WARN, S_INFO} :
                                    SameName(lres.level, l))
        /\ ~QUIET => (lres.emitted <=> OwnCount(lres.out) = 1)

\* A message of level "debug" was suppressed under the configured level "info"
C7_Witness ==
    /\ lres.op = "p_log"
    /\ lres.level = S_debug
    /\ LOG_LEVEL = S_info
    /\ ~lres.emitted

\* C8: while QUIET is set no logger call writes anything to standard output,
\* whatever the level, the configured level and the state of the log file;
\* while it is not set every emitted message is written to standard output
\* exactly once.
C8_QuietIsSilent ==
    Logged =>
        /\ QUIET => lres.out = <<>>
        /\ (~QUIET /\ lres.emitted) => OwnCount(lres.out) = 1

\* C9: once a write to the log file fails, the call does not raise, LOG_FILE
\* is None, no later call opens a log file until set_log_file is called, and
\* the message whose write failed and every later emitted message are
\* written to standard output when QUIET is off.
C9_FileFailure ==
    /\ file_failed => LOG_FILE = None
    /\ Logged =>
        /\ lres.failed => (~lres.raised /\ file_failed)
        /\ lres.failed_before => lres.attempts = 0
        /\ (lres.failed /\ ~QUIET) =>
              \A i \in 1..Len(lres.out) :
                  lres.out[i].kind = "off" =>
                      (i < Len(lres.out) /\ lres.out[i + 1].kind = "log")
        /\ ((lres.failed \/ lres.failed_before) /\ lres.emitted /\ ~QUIET) =>
              OwnCount(lres.out) = 1

\* A message was emitted to standard output by a call made after a failed
\* write to the log file
C9_Witness ==
    /\ lres.op = "p_log"
    /\ lres.failed_before
    /\ lres.emitted
    /\ ~QUIET
    /\ OwnCount(lres.out) = 1

\* C10: every call of p_fatal performs the logging step and then terminates
\* the process with exit status 1, whatever the configured level, QUIET and
\* the log file.
C10_FatalExits ==
    lres.op = "p_fatal" => (proc = "exited" /\ exit_status = 1 /\ lres.exited)

(***************************************************************************)
(* Properties of the configuration loader                                  *)
(***************************************************************************)

Objects == {"target", "nested"}

\* The list of candidate files of the last call, in the order given
Candidates == IF cres.filenames.t = "list" THEN cres.filenames.v ELSE <<cres.filenames.v>>

Existing == {f \in Range(Candidates) : fs[f].exists}

\* The mapping of an existing file has the sub-key of the last call
HasSubkey(f) == cres.subkey = NoSubkey \/ cres.subkey \in DOMAIN fs[f].content.v

\* The existing candidates without and with the sub-key
Missing == {f \in Existing : ~HasSubkey(f)}
Usable == {f \in Existing : HasSubkey(f)}

\* The existing candidate that comes first in the list
FirstExisting == Candidates[CHOOSE i \in 1..Len(Candidates) :
                               /\ fs[Candidates[i]].exists
                               /\ \A j \in 1..(i - 1) : ~fs[Candidates[j]].exists]

\* The mapping of a usable file that is read into the target
TopMapping(f) ==
    IF cres.subkey = NoSubkey THEN fs[f].content ELSE fs[f].content.v[cres.subkey]

\* The keys that a usable file gives for an object: the keys of the mapping
\* read into the target, and for the nested Config object the keys of the
\* mapping it gives for DB
KeysFor(f, id) ==
    LET top == TopMapping(f)
        sub == IF N_DB \in DOMAIN top.v THEN top.v[N_DB]
               ELSE IF K_db \in DOMAIN top.v THEN top.v[K_db]
               ELSE PyNone
    IN  IF id = "target" THEN DOMAIN top.v
        ELSE IF sub.t = "dict" THEN DOMAIN sub.v
        ELSE {}

\* The integers that occur in a value
RECURSIVE Scalars(_)
Scalars(value) ==
    IF value.t = "dict"
    THEN UNION {Scalars(value.v[k]) : k \in DOMAIN value.v}
    ELSE {value}

\* The lines of the warning of a missing sub-key in the output of the call
WarnCount ==
    Cardinality({i \in 1..Len(cres.out) :
                    cres.out[i] = LogString(S_WARN, "key not found", <<>>)})

\* C1: Config.load([A, B], layered_configuration=False, subkey) with A an
\* existing file never applies B: every attribute keeps its prior value or
\* has a value of A.
C1_FirstMatchOnly ==
    (/\ cres.op = "Config.load"
     /\ cres.filenames = PyList(<<"A", "B">>)
     /\ ~cres.layered
     /\ fs["A"].exists) =>
        /\ "B" \notin Range(cres.applied)
        /\ \A id \in Objects : \A name \in DOMAIN heap[id] :
              \/ heap[id][name] = cres.pre[id][name]
              \/ heap[id][name] \in Scalars(fs["A"].content)

\* C2: Config.load([A, B], layered_configuration=True) with both files
\* existing completes, applies B and then A, and leaves a key of both files
\* with A's value and a key of B alone with B's value.
C2_LayeredFirstWins ==
    (/\ cres.op = "Config.load"
     /\ cres.filenames = PyList(<<"A", "B">>)
     /\ cres.layered
     /\ cres.subkey = NoSubkey
     /\ fs["A"].exists /\ fs["B"].exists) =>
        /\ ~cres.raised
        /\ cres.applied = <<"B", "A">>
        /\ \A name \in {N_PORT, N_Log, N_mode} :
              LET ka == KeyFor(name, KeysFor("A", "target"))
                  kb == KeyFor(name, KeysFor("B", "target"))
              IN  IF ka # <<>> THEN heap["target"][name] = TopMapping("A").v[ka]
                  ELSE IF kb # <<>> THEN heap["target"][name] = TopMapping("B").v[kb]
                  ELSE heap["target"][name] = cres.pre["target"][name]

\* C3: the list a load call returns is the list of the files whose contents
\* were applied, in the order of application, so it has no file that was
\* skipped for a missing sub-key and at most one file under first-match.
C3_UsedFilesAreApplied ==
    (cres.op # "none" /\ ~cres.raised) =>
        /\ cres.used_files = cres.applied
        /\ ~cres.layered => Len(cres.used_files) <= 1

\* C4: a load call changes an attribute only if it is a public, non-callable
\* name whose exact or lower-cased form is a key of an applied file; it
\* creates no attribute.
C4_OnlyNamedVariablesChange ==
    cres.op # "none" =>
        /\ DOMAIN heap = Objects
        /\ \A id \in Objects :
              /\ DOMAIN heap[id] = DOMAIN cres.pre[id]
              /\ \A name \in DOMAIN heap[id] :
                    heap[id][name] # cres.pre[id][name] =>
                        /\ name[1] # "_"
                        /\ cres.pre[id][name].t \notin {"fn", "mod"}
                        /\ \E f \in Range(cres.applied) :
                              \/ name \in KeysFor(f, id)
                              \/ Lower(name) \in KeysFor(f, id)

\* A file with the keys port, extra, load, _k, os and MODE was applied: PORT
\* has the value of port, and mode, _k, load and os are as before
C4_Witness ==
    /\ cres.op = "Config.load"
    /\ cres.applied = <<"A">>
    /\ cres.subkey = NoSubkey
    /\ fs["A"].content = ContentA1
    /\ cres.pre["target"][N_PORT] = PyInt(0)
    /\ heap["target"][N_PORT] = PyInt(1)
    /\ heap["target"][N_k] = PyInt(0)
    /\ heap["target"][N_mode] = PyInt(0)
    /\ heap["target"][N_load] = PyFn

\* C5: Config.load with a sub-key that an existing candidate file does not
\* have does not raise, warns once for the file, applies nothing of it and
\* goes on to the next candidate.
C5_MissingSubkeySkips ==
    (/\ cres.op = "Config.load"
     /\ cres.subkey # NoSubkey
     /\ Missing # {}
     /\ ~cres.layered => FirstExisting \in Missing) =>
        /\ ~cres.raised
        /\ WarnCount = Cardinality(Missing)
        /\ Missing \cap Range(cres.applied) = {}
        /\ Usable # {} => Range(cres.applied) \cap Usable # {}
        /\ Usable = {} => heap = cres.pre

\* C6: when the target holds a nested Config object and the file gives a
\* mapping for it, Config.load and load complete, change the attributes of the
\* nested object that the mapping names and no other, and leave the target's
\* attribute a Config object.
C6_NestedMerge ==
    (/\ cres.op # "none"
     /\ ~cres.layered
     /\ Usable # {}
     /\ FirstExisting \in Usable
     /\ K_db \in DOMAIN TopMapping(FirstExisting).v
     /\ TopMapping(FirstExisting).v[K_db].t = "dict") =>
        LET mapping == TopMapping(FirstExisting).v[K_db]
        IN  /\ ~cres.raised
            /\ heap["target"][N_DB] = PyRef("nested")
            /\ \A name \in {N_HOST, N_NAME} :
                  IF Lower(name) \in DOMAIN mapping.v
                  THEN heap["nested"][name] = mapping.v[Lower(name)]
                  ELSE heap["nested"][name] = cres.pre["nested"][name]

(***************************************************************************)
(* Properties of the auth dependencies                                     *)
(***************************************************************************)

\* The allow-list the last API-key check read
AllowList ==
    IF ares.fn = "get_api_key" THEN API_KEYS ELSE app._api_keys

\* The keys of an allow-list
KeySet(l) == IF l.t = "none" THEN {} ELSE Range(l.v)

IsKeyCheck == ares.fn \in {"get_api_key", "_get_api_key"}

\* C11: the API-key check, in dependencies.get_api_key and in
\* FastAPIX._get_api_key: with an allow-list that is None or empty every
\* request is accepted as "default"; with a non-empty allow-list a request is
\* accepted if and only if its query value or its header value equals an
\* element of the list, the identity returned is the matching key (the query
\* value when both match), and every other request is rejected with 401.
C11_ApiKeyCheck ==
    /\ app._api_keys.t \in {"none", "list"}
    /\ IsKeyCheck =>
         LET keys == KeySet(AllowList)
             query == ares.a
             header == ares.b
         IN  IF keys = {}
             THEN ares.out = Return("default")
             ELSE /\ ~ares.out.raised <=> (query \in keys \/ header \in keys)
                  /\ ~ares.out.raised =>
                       ares.out.value = IF query \in keys THEN query ELSE header
                  /\ ares.out.raised =>
                       ares.out.status_code = HTTP_401_UNAUTHORIZED

\* Both values match different keys of the allow-list of the instance, and
\* the query value was returned
C11_Witness ==
    /\ ares.fn = "_get_api_key"
    /\ ares.a = "k1" /\ ares.b = "k2"
    /\ {"k1", "k2"} \subseteq KeySet(app._api_keys)
    /\ ares.out = Return("k1")

\* C12: get_current_username depends on the username, the allow-list of
\* users and the anonymous flag, never on the password: with an empty or None
\* allow-list a non-empty username is returned, an empty one is "anonymous"
\* when anonymous access is enabled and rejected with 401 otherwise; with a
\* non-empty allow-list the username is returned if and only if it is in the
\* list, and rejected with 401 otherwise.
C12_UsernameOnly ==
    ares.fn = "get_current_username" =>
        LET users == KeySet(AUTHORIZED_USERS)
            username == ares.a
            expected ==
                IF users = {}
                THEN IF username # "" THEN Return(username)
                     ELSE IF ALLOW_ANONYMOUS_USER THEN Return("anonymous")
                     ELSE HTTPException(HTTP_401_UNAUTHORIZED)
                ELSE IF username \in users THEN Return(username)
                     ELSE HTTPException(HTTP_401_UNAUTHORIZED)
        IN  /\ ares.out = expected
            /\ \A password \in Passwords :
                 get_current_username(
                     [username |-> username, password |-> password],
                     AUTHORIZED_USERS, ALLOW_ANONYMOUS_USER) = ares.out

\* A listed user with an empty password was accepted
C12_Witness ==
    /\ ares.fn = "get_current_username"
    /\ ares.a = "alice" /\ ares.b = ""
    /\ "alice" \in KeySet(AUTHORIZED_USERS)
    /\ ares.out = Return("alice")

(***************************************************************************)
(* Properties of the routes and of the lifespan of FastAPIX                *)
(***************************************************************************)

\* The allow-list of the application that served the last request
RouteKeys == KeySet(IF rres.route.app = "api.app" THEN API_KEYS ELSE app._api_keys)

\* The last request carries a key of the allow-list
HasValidKey == rres.query \in RouteKeys \/ rres.header \in RouteKeys

\* The route of the last request has an API-key check among its dependencies
KeyChecked ==
    \E i \in DOMAIN rres.route.dependencies :
        rres.route.dependencies[i].call \in {"get_api_key", "_get_api_key"}

\* The API-key check rejected the last request
KeyRejected ==
    /\ KeyChecked
    /\ rres.outcomes[1].raised

\* The basic-auth dependency of the route was called for the last request,
\* and it authorized the request
AuthCalled ==
    /\ rres.served
    /\ rres.route.app = "FastAPIX"
    /\ Len(rres.outcomes) = Len(rres.route.dependencies)

Authorized == ~rres.outcomes[Len(rres.outcomes)].raised

\* The last request carries credentials for which the auth_user callback of
\* the application returns a truthy value
ValidCredentials ==
    /\ rres.credentials.present
    /\ app._auth_user.t = "fn"
    /\ Truthy(CallAuth(app._auth_user, rres.credentials.username,
                       rres.credentials.password))

\* C13 as stated: on a route registered through a FastAPIX decorator without
\* require_keys, and on the route of the app of api.py, a request without a
\* key of a non-empty allow-list is rejected with 401 and the handler does
\* not run; with no key configured the key check rejects no request.
C13_KeyCheckByDefault ==
    (rres.served /\ (rres.route.app = "api.app" \/ ~rres.route.require_keys)) =>
        IF RouteKeys = {}
        THEN ~KeyRejected
        ELSE ~HasValidKey =>
                /\ rres.status_code = HTTP_401_UNAUTHORIZED
                /\ ~rres.handler_ran

\* C13 as amended: the API-key check is opt-in on the routes of FastAPIX.  It
\* is a dependency of a route exactly when the route is registered with
\* require_keys=True or belongs to the app of api.py; on such a route, with a
\* non-empty allow-list, a request without a key of the list is rejected with
\* 401 and the handler does not run, and with no key configured the check
\* rejects nothing; a route registered without require_keys runs its handler
\* for every request its basic-auth dependency authorizes, whatever the key.
C13_KeyCheckOptIn ==
    rres.served =>
        /\ KeyChecked <=> (rres.route.app = "api.app" \/ rres.route.require_keys)
        /\ KeyChecked =>
             IF RouteKeys = {} \/ HasValidKey
             THEN ~KeyRejected
             ELSE /\ rres.status_code = HTTP_401_UNAUTHORIZED
                  /\ ~rres.handler_ran
        /\ ~KeyChecked =>
             /\ AuthCalled
             /\ rres.handler_ran <=> Authorized
             /\ ~rres.route.require_auth => rres.handler_ran

\* A route registered without require_keys served a request without a key
\* of the non-empty allow-list
C13_Witness ==
    /\ rres.served
    /\ rres.route.app = "FastAPIX"
    /\ ~rres.route.require_keys
    /\ RouteKeys # {}
    /\ ~HasValidKey
    /\ rres.handler_ran

\* C14: on a route registered with require_auth=True and allow_anonymous left
\* at None, a request without valid credentials is authorized when the
\* allow_anonymous_users of the constructor is True and rejected with 401
\* when it is False.
C14_DefaultAnonymousPolicy ==
    (/\ AuthCalled
     /\ rres.route.require_auth
     /\ rres.route.allow_anonymous.t = "none"
     /\ ~ValidCredentials) =>
        /\ Authorized <=> app._allow_anonymous_users
        /\ ~Authorized => rres.status_code = HTTP_401_UNAUTHORIZED

\* C15: with explicit arguments, require_auth=False authorizes every request;
\* require_auth=True with allow_anonymous=True authorizes a request without
\* credentials; require_auth=True with allow_anonymous=False authorizes a
\* request if and only if it carries credentials for which the auth_user
\* callback returns a truthy value, and rejects every other request with 401,
\* also when no callback is configured.
C15_AuthorizationTable ==
    AuthCalled =>
        /\ ~rres.route.require_auth => Authorized
        /\ (/\ rres.route.require_auth
            /\ rres.route.allow_anonymous = PyBool(TRUE)
            /\ ~rres.credentials.present) => Authorized
        /\ (/\ rres.route.require_auth
            /\ rres.route.allow_anonymous = PyBool(FALSE)) =>
                /\ Authorized <=> ValidCredentials
                /\ ~Authorized =>
                     /\ rres.status_code = HTTP_401_UNAUTHORIZED
                     /\ ~rres.handler_ran

\* A route that forbids anonymous users served a request with credentials
\* that the callback accepts
C15_Witness ==
    /\ AuthCalled
    /\ rres.route.require_auth
    /\ rres.route.allow_anonymous = PyBool(FALSE)
    /\ rres.credentials = HTTPBasicCredentials("alice", "secret")
    /\ Authorized
    /\ rres.handler_ran

\* The hooks a lifespan calls before and after the yield
StartHooks ==
    (IF app._on_start.t = "fn" THEN <<"_on_start">> ELSE <<>>) \o <<"on_start">>

StopHooks ==
    <<"on_stop">> \o (IF app._on_stop.t = "fn" THEN <<"_on_stop">> ELSE <<>>)

IsPrefix(s, t) == Len(s) <= Len(t) /\ \A i \in DOMAIN s : s[i] = t[i]

\* C16: the hooks of a lifespan run in the order on_start callback, on_start
\* method, requests, on_stop method, on_stop callback, each at most once; no
\* request is served before both start hooks have returned; a callback that
\* is None is skipped without error.
C16_HookOrder ==
    /\ IsPrefix(hooks, StartHooks \o StopHooks)
    /\ rres.served => IsPrefix(StartHooks, hooks)
    /\ lifespan = "serving" => hooks = StartHooks
    /\ lifespan = "stopped" => hooks = StartHooks \o StopHooks
    /\ lifespan = "failed" =>
         \/ hooks = <<"_on_start">> /\ HookRaises(app._on_start)
         \/ hooks = StartHooks \o StopHooks /\ HookRaises(app._on_stop)

\* A server with both callbacks started, served a request and stopped
C16_Witness ==
    /\ lifespan = "stopped"
    /\ rres.served
    /\ hooks = <<"_on_start", "on_start", "on_stop", "_on_stop">>

(***************************************************************************)
(* Properties of the JSON store                                            *)
(***************************************************************************)

\* The texts of the model that are JSON, and those whose top level is an
\* object
JsonTexts == {TextObject, TextList}

ObjectTexts == {TextObject}

\* The file a load names exists, holds JSON, and the _unserialize of the
\* class of the store returns true for it
Loadable ==
    /\ dres.files[dres.arg].kind = "file"
    /\ dres.files[dres.arg].text \in JsonTexts
    /\ \/ dres.before.cls = "EmptyJsonDB"
       \/ /\ dres.before.cls = "MappingDB"
          /\ dres.files[dres.arg].text \in ObjectTexts

\* C17: loadFromJsonFile(path) succeeds only if path is an existing file
\* whose content parses as JSON and for which _unserialize returns true, and
\* the file name of the store is then path; in every other case (no such
\* file, malformed JSON, _unserialize false or raising) it raises and the
\* file name keeps its prior value.
C17_LoadSetsNameOnSuccess ==
    dres.op = "loadFromJsonFile" =>
        /\ ~dres.raised <=> Loadable
        /\ ~dres.raised => db._filename = dres.arg
        /\ dres.raised => db._filename = dres.before._filename

\* A store that has a file name failed to load a malformed file
C17_Witness ==
    /\ dres.op = "loadFromJsonFile"
    /\ dres.before._filename = "b.json"
    /\ dres.arg = "a.json"
    /\ dres.files["a.json"] = TextFile(TextTruncated)
    /\ dres.raised
    /\ db._filename = "b.json"

\* A tree without the keys whose value is None, at every depth
RECURSIVE WithoutNulls(_)
RECURSIVE KeptItems(_)
KeptItems(items) ==
    IF Len(items) = 0 THEN <<>>
    ELSE (IF items[1].value.t = "none" THEN <<>>
          ELSE <<Item(items[1].key, WithoutNulls(items[1].value))>>)
            \o KeptItems(Tail(items))

WithoutNulls(x) ==
    CASE x.t = "dict" -> JsonObject(KeptItems(x.v))
      [] x.t = "list" -> PyList([i \in DOMAIN x.v |-> WithoutNulls(x.v[i])])
      [] OTHER -> x

\* The text save is to leave in the file of the store
SavedText(self) == json_dumps(WithoutNulls(_serialize(self, <<>>).value))

\* The last call was to save the store: the call did not raise and the file
\* of the store holds the text of its tree
Saved ==
    /\ ~dres.raised
    /\ disk[dres.before._filename] = TextFile(SavedText(dres.before))
    /\ \A f \in DOMAIN disk : f # dres.before._filename => disk[f] = dres.files[f]

\* C18: save() on a store that has a file name and a _serialize completes
\* without error and leaves the file holding exactly the JSON of the tree
\* _serialize returns, without its null-valued keys, in place of the previous
\* content.
C18_SaveWritesTree ==
    (/\ dres.op = "save"
     /\ dres.before._filename # None
     /\ dres.before.cls # "JsonDB") => Saved

\* C19: save() on a store without a file name raises an error, creates or
\* modifies no file and leaves the store as it was.
C19_SaveWithoutName ==
    (dres.op = "save" /\ dres.before._filename = None) =>
        /\ dres.raised
        /\ dres.error = "Exception: filename is not set"
        /\ disk = dres.files
        /\ db = dres.before

\* save() was called on a store that was constructed without a file name and
\* has loaded none
C19_Witness ==
    /\ dres.op = "save"
    /\ dres.before._filename = None
    /\ dres.before.cls = "EmptyJsonDB"
    /\ dres.raised

\* C20: triggerAutosave() on a store calls the method; it saves the store
\* exactly when autosave is true and a file name is set, and otherwise does
\* nothing and does not raise.
C20_AutosaveSaves ==
    (dres.op = "triggerAutosave" /\ dres.before.cls # "JsonDB") =>
        IF dres.before.autosave /\ dres.before._filename # None
        THEN Saved
        ELSE /\ ~dres.raised
             /\ disk = dres.files
             /\ db = dres.before

(***************************************************************************)
(* Properties of remove_nones                                              *)
(***************************************************************************)

\* No dict of the tree, at any depth, has a key whose value is None
RECURSIVE NoNullKeys(_)
NoNullKeys(x) ==
    CASE x.t = "dict" ->
            \A i \in DOMAIN x.v : x.v[i].value.t # "none" /\ NoNullKeys(x.v[i].value)
      [] x.t = "list" -> \A i \in DOMAIN x.v : NoNullKeys(x.v[i])
      [] OTHER -> TRUE

\* after holds every key of before whose value is not None, at every depth,
\* and the scalars and the lengths of the lists of before
RECURSIVE KeepsKeys(_, _)
KeepsKeys(before, after) ==
    CASE before.t = "dict" ->
            /\ after.t = "dict"
            /\ \A i \in DOMAIN before.v :
                 before.v[i].value.t # "none" =>
                     \E j \in DOMAIN after.v :
                        /\ after.v[j].key = before.v[i].key
                        /\ KeepsKeys(before.v[i].value, after.v[j].value)
      [] before.t = "list" ->
            /\ after.t = "list"
            /\ Len(after.v) = Len(before.v)
            /\ \A i \in DOMAIN before.v : KeepsKeys(before.v[i], after.v[i])
      [] OTHER -> after = before

\* C21: after remove_nones(obj) no mapping at any depth of the result
\* (inside mappings, inside lists, inside lists nested in lists) has a key
\* whose value is None, every key with a non-None value is kept with its
\* value, and a second remove_nones changes nothing.
C21_RemoveNonesStripsAll ==
    ures.op = "remove_nones" =>
        /\ NoNullKeys(ures.value)
        /\ KeepsKeys(ures.arg, ures.value)
        /\ remove_nones(ures.value) = ures.value

(***************************************************************************)
(* Properties of the rank lookup of the logger                             *)
(***************************************************************************)

\* The rank the lookup is to give: that of the level, or of INFO for a name
\* that is not a level
RankOrInfo(name) ==
    IF IsLevel(name) THEN Position(name) ELSE Position(S_INFO)

\* The last call printed the message "Invalid log level" for the name
InvalidLevelPrinted(name) ==
    \E i \in DOMAIN lres.out :
        /\ lres.out[i].kind = "log"
        /\ lres.out[i].level = S_ERROR
        /\ lres.out[i].msg = "Invalid log level"
        /\ lres.out[i].arg = name

\* C25: for every level name given to p_log and every configured LOG_LEVEL,
\* names that are not one of the seven levels included, the rank lookup
\* terminates and p_log returns; a name that is not a level is reported with
\* an ERROR message (printed when ERROR messages pass the configured level
\* and the console is not quiet) and is treated as INFO.
C25_RankLookupTerminates ==
    lres.op = "p_log" =>
        /\ ~lres.raised
        /\ lres.emitted <=> (RankOrInfo(lres.level) <= RankOrInfo(LOG_LEVEL))
        /\ \A name \in {lres.level, LOG_LEVEL} :
             (/\ ~IsLevel(name)
              /\ ~QUIET
              /\ RankOrInfo(S_ERROR) <= RankOrInfo(LOG_LEVEL)) => InvalidLevelPrinted(name)

(***************************************************************************)
(* Properties of p_log called by several threads                           *)
(***************************************************************************)

\* The content of a file is a sequence of whole lines, each the record of a
\* thread that emitted it
WholeLines(content) ==
    /\ Len(content) % 2 = 0
    /\ \A i \in DOMAIN content :
         IF i % 2 = 1
         THEN \E t \in Threads :
                 frame[t].emitted /\ content[i] = Text(log_string(t))
         ELSE content[i] = Newline

\* The number of times the record of thread t is in the log files
Occurrences(t) ==
    Cardinality({<<f, i>> \in LogFiles \X (1..(2 * NThreads)) :
                    /\ i \in DOMAIN logfiles[f]
                    /\ logfiles[f][i] = Text(log_string(t))})

\* Thread t has returned from a call that emitted its record
Returned(t) == pc[t] = "done" /\ frame[t].emitted

\* The open of the log file of some call failed: the file could not be
\* written
OpenFailed == \E t \in Threads : frame[t].error = "OSError"

\* No call of p_log has raised an exception to its caller
NoneRaised == \A t \in Threads : ~frame[t].raised

\* C24 as stated: under every interleaving the log file is a sequence of
\* complete records, every emitted record is in it (none is lost), and no
\* call of p_log raises, also when a write failure of one call sets LOG_FILE
\* to None while another call is between its check and its open.
C24_NoRecordLost ==
    /\ \A f \in LogFiles : WholeLines(logfiles[f])
    /\ \A t \in Threads : Returned(t) => Occurrences(t) = 1
    /\ NoneRaised

\* C24, amended: under every interleaving the log file is a sequence of
\* complete records, no record is in it twice, every emitted record is in it
\* as long as no call failed to open the file, and no call of p_log raises;
\* a call that finds LOG_FILE reset to None between its check and its open
\* catches the TypeError of open, and it does so only after the open of
\* another call failed on the file.
C24_NoRecordLostWhileWritable ==
    /\ \A f \in LogFiles : WholeLines(logfiles[f])
    /\ \A t \in Threads : Occurrences(t) <= 1
    /\ \A t \in Threads : (Returned(t) /\ ~OpenFailed) => Occurrences(t) = 1
    /\ \A t \in Threads : frame[t].error = "TypeError" => OpenFailed
    /\ \A t \in Threads : (Returned(t) /\ frame[t].error # "") => LOG_FILE = None
    /\ NoneRaised

\* Two threads have returned: the open of one failed on the file, the other
\* was between its check and its open when LOG_FILE was reset and caught the
\* TypeError of open(None)
C24_Witness ==
    /\ \A t \in Threads : Returned(t)
    /\ \E t, u \in Threads :
         /\ frame[t].error = "OSError"
         /\ frame[u].error = "TypeError"
         /\ ~frame[u].raised
         /\ Occurrences(u) = 0

(***************************************************************************)
(* Properties of the front ends                                            *)
(***************************************************************************)

\* The values of -i of the model that are IP addresses
ValidAddresses == {IP_10_0_0_1, IP_0_0_0_0, IP_127_0_0_1}

\* -i was given, and its value is an IP address or not
IpGiven == NotNone(args.ip)

IpValid == IpGiven /\ args.ip.v \in ValidAddresses

IpInvalid == IpGiven /\ args.ip.v \notin ValidAddresses

\* main has handled its arguments and goes on to start the server, or has
\* made the call of uvicorn.run
Starting == mpc = "start" \/ server.started

\* C22: in both front ends, with an argument of -i that is not an IP address
\* the process ends with exit status 1 at the check of the argument, before
\* the steps that start the server and before the call of run; with one that
\* is an IP address the resolved IP_ADDRESS is the argument when the server
\* starts, and it is the host the run call is given.
C22_NoStartWithInvalidIp ==
    /\ IpInvalid =>
          /\ ~server.started
          /\ mpc \in {"configure", "ip", "exited"}
          /\ mpc = "exited" => (proc = "exited" /\ exit_status = 1)
    /\ (IpValid /\ Starting) =>
          /\ HasAttr(heap, ConfigObject(front), N_IP_ADDRESS)
          /\ heap[ConfigObject(front)][N_IP_ADDRESS].v = args.ip.v
    /\ (IpValid /\ server.started) => server.host.v = args.ip.v

\* example.py was given -i 10.0.0.256: p_fatal has logged and ended the
\* process with status 1, and the server was not started
C22_Witness ==
    /\ front = "example"
    /\ IpGiven
    /\ args.ip.v = IP_10_0_0_256
    /\ proc = "exited"
    /\ exit_status = 1
    /\ merr = ""
    /\ ~server.started

\* C23: in both front ends the logger is configured from the resolved
\* configuration before the server starts: when main goes on to start the
\* server, and when the call of run is made, debug.LOG_LEVEL, debug.LOG_FILE
\* and debug.QUIET equal LOG_LEVEL, LOG_FILE and QUIET of the resolved
\* configuration.
C23_LoggerConfiguredBeforeStart ==
    Starting =>
        LET id == ConfigObject(front)
        IN  /\ HasAttr(heap, id, N_LOG_LEVEL)
            /\ LOG_LEVEL = Plain(heap[id][N_LOG_LEVEL])
            /\ HasAttr(heap, id, N_LOG_FILE)
            /\ LOG_FILE = Plain(heap[id][N_LOG_FILE])
            /\ HasAttr(heap, id, N_QUIET)
            /\ QUIET = Plain(heap[id][N_QUIET])

\* Two Python values are equal
SameValue(x, y) == x.t = y.t /\ x.v = y.v

\* The mapping of the configuration file that the front end loads: the file
\* of -c for example.py, the first candidate that exists for __main__.py;
\* an empty mapping when there is none
LoadedFile ==
    LET name == IF front = "example"
                THEN (IF NotNone(args.config_file) /\ fs[args.config_file.v].exists
                      THEN args.config_file.v ELSE None)
                ELSE config_file_used(args, fs)
    IN  IF name = None THEN PyDict(<<>>) ELSE fs[name].content

\* The option has a value in the resolved configuration: that of the flag
\* when the flag is given, or else that of the configuration file, or else
\* the default
Resolves(name, key, given, value, default) ==
    /\ HasAttr(heap, ConfigObject(front), name)
    /\ SameValue(heap[ConfigObject(front)][name],
                 IF given THEN value
                 ELSE IF key \in DOMAIN LoadedFile.v THEN LoadedFile.v[key]
                 ELSE default)

\* C26: in both front ends, for each of -v, -l, -q and -p (and -vv and -d
\* in pyapi/__main__.py), when main goes on to start the server and when the
\* call of run is made, the resolved value of the option is the value of the
\* flag when the flag is given, whatever the configuration file sets, and
\* the value of the file or else the default when it is not; with -v and
\* -vv the level is TRACE.
C26_FlagsOverrideFile ==
    Starting =>
        /\ Resolves(N_LOG_LEVEL, K_log_level, args.verbose \/ args.verbose_more,
                    IF args.verbose_more THEN PyStr(S_TRACE) ELSE PyStr(S_DEBUG),
                    PyStr(S_INFO))
        /\ Resolves(N_LOG_FILE, K_log_file, NotNone(args.log_file),
                    args.log_file, PyNone)
        /\ Resolves(N_QUIET, K_quiet, args.quiet, PyBool(TRUE), PyBool(FALSE))
        /\ Resolves(N_PORT, K_port, NotNone(args.port), args.port, PyInt(8000))
        /\ front = "pyapi" =>
              Resolves(N_DATABASE_FILE, K_database_file,
                       NotNone(args.database_file), args.database_file, PyNone)

====
